---- MODULE Spec2Model ----
(***************************************************************************)
(* Model of the arbeit-backend ingestion pipeline: BaseScraper.fetch,      *)
(* BaseScraper.save, BaseScraper.run, the deduplication and quality        *)
(* helpers they call, the source registry and the Celery tasks that drive  *)
(* them.  The database is modelled by its committed contents.              *)
(***************************************************************************)
EXTENDS Integers, Sequences, FiniteSets, TLC

\* Optional[T]: None is the empty tuple, a present value v is <<v>>.
None == <<>>

Some(v) == <<v>>

Max(a, b) == IF a >= b THEN a ELSE b

(***************************************************************************)
(* Text.  A string is a sequence of one-character strings, so that         *)
(* len(), lower(), [A-Z] and fuzz.ratio are computed, not assumed.         *)
(***************************************************************************)
UpperToLower ==
  [c \in {"A", "B", "D", "E", "G", "L", "Q", "R", "S", "T"} |->
     CASE c = "A" -> "a" [] c = "B" -> "b" [] c = "D" -> "d" [] c = "E" -> "e"
       [] c = "G" -> "g" [] c = "L" -> "l" [] c = "Q" -> "q" [] c = "R" -> "r"
       [] c = "S" -> "s" [] c = "T" -> "t"]

LowerLetters == {"a", "b", "c", "d", "e", "g", "k", "l", "m", "n", "o",
                 "q", "r", "s", "t", "v"}

IsUpper(c) == c \in DOMAIN UpperToLower

IsAlpha(c) == IsUpper(c) \/ c \in LowerLetters

\* str.lower()
Lower(s) == [i \in 1..Len(s) |-> IF IsUpper(s[i]) THEN UpperToLower[s[i]] ELSE s[i]]

\* len(EXCESSIVE_CAPS_PATTERN.findall(title))
CapsCount(s) == Cardinality({i \in 1..Len(s) : IsUpper(s[i])})

\* len([c for c in title if c.isalpha()])
LetterCount(s) == Cardinality({i \in 1..Len(s) : IsAlpha(s[i])})

\* One row of the longest-common-subsequence table, from the row above it.
\* Row k holds column k-1.  (The rows are built before they are passed on.)
RECURSIVE LcsRow(_, _, _, _, _)
LcsRow(prev, c, t, j, acc) ==
  IF j > Len(t) THEN acc
  ELSE LET next == Append(acc, IF c = t[j] THEN prev[j] + 1
                               ELSE Max(prev[j + 1], acc[j]))
       IN IF Len(next) = j + 1 THEN LcsRow(prev, c, t, j + 1, next) ELSE <<>>

RECURSIVE LcsRows(_, _, _, _)
LcsRows(s, t, i, prev) ==
  IF i > Len(s) THEN prev[Len(t) + 1]
  ELSE LET row == LcsRow(prev, s[i], t, 1, <<0>>)
       IN IF Len(row) = Len(t) + 1 THEN LcsRows(s, t, i + 1, row) ELSE 0

\* Length of a longest common subsequence of s and t.
LCS(s, t) == LcsRows(s, t, 1, [k \in 1..(Len(t) + 1) |-> 0])

\* rapidfuzz fuzz.ratio(s, t) = 100 * 2*LCS / (len(s) + len(t)), kept as the
\* exact fraction <<numerator, denominator>>; two empty strings score 100.
FuzzRatio(s, t) ==
  IF Len(s) + Len(t) = 0 THEN <<100, 1>>
  ELSE <<200 * LCS(s, t), Len(s) + Len(t)>>

\* str.strip() for the blank ' '.
RECURSIVE StripLeft(_)
StripLeft(s) == IF s # <<>> /\ Head(s) = " " THEN StripLeft(Tail(s)) ELSE s

RECURSIVE StripRight(_)
StripRight(s) ==
  IF s # <<>> /\ s[Len(s)] = " " THEN StripRight(SubSeq(s, 1, Len(s) - 1)) ELSE s

Strip(s) == StripRight(StripLeft(s))

\* Python truthiness of an Optional[str] and of an Optional[int].
TruthyStr(o) == o # None /\ o[1] # <<>>

TruthyInt(o) == o # None /\ o[1] # 0

(***************************************************************************)
(* Candidate jobs (JobIn).  A description is its leading text followed by  *)
(* `pad` filler characters, so that its length is exact without carrying   *)
(* a hundred characters in every state.                                    *)
(***************************************************************************)
DescLen(d) == Len(d.text) + d.pad

\* Truthiness of an Optional description.
TruthyDesc(o) == o # None /\ DescLen(o[1]) > 0

\* len(description.strip())
DescStripLen(d) ==
  IF d.pad = 0 THEN Len(Strip(d.text)) ELSE Len(StripLeft(d.text)) + d.pad

Desc(text, pad) == Some([text |-> text, pad |-> pad])

TitleBackend == <<"G", "o", " ", "B", "a", "c", "k", "e", "n", "d">>
TitleBackand == <<"G", "o", " ", "B", "a", "c", "k", "a", "n", "d">>
TitleCaps == <<"Q", "A", " ", "T", "E", "S", "T", "E", "R", "S">>
TitleShort == <<"D", "e", "v">>
TitleData == <<"D", "a", "t", "a", " ", "L", "e", "a", "d", "e", "r">>
CoAcme == <<"A", "c", "m", "e", " ", "L", "a", "b", "s">>
CoBolt == <<"B", "o", "l", "t">>
LocRemote == <<"R", "e", "m", "o", "t", "e">>

\* q = 0.6: company, location, well-formed title (the shape of the feed
\* entries of tests/test_full_pipeline.py).
JobPlain ==
  [title |-> TitleBackend, url |-> "u1", company |-> Some(CoAcme),
   location |-> Some(LocRemote), description |-> Desc(<<"j", "o", "b">>, 37),
   salary_min |-> None, salary_max |-> None, remote_work |-> FALSE]

\* Same URL as JobPlain, everything else different, richer metadata.
JobRich ==
  [title |-> TitleCaps, url |-> "u1", company |-> Some(CoBolt),
   location |-> None, description |-> Desc(<<"j", "o", "b", "s">>, 117),
   salary_min |-> Some(50), salary_max |-> None, remote_work |-> TRUE]

\* Another URL, title one letter away from JobPlain's, same company.
JobTwin ==
  [title |-> TitleBackand, url |-> "u2", company |-> Some(CoAcme),
   location |-> Some(LocRemote), description |-> None,
   salary_min |-> None, salary_max |-> Some(90), remote_work |-> FALSE]

\* URL of JobPlain, but sparse: no company, no description, short title.
JobSparse ==
  [title |-> TitleShort, url |-> "u1", company |-> None,
   location |-> Some(LocRemote), description |-> None,
   salary_min |-> None, salary_max |-> None, remote_work |-> TRUE]

\* Unrelated posting.
JobOther ==
  [title |-> TitleData, url |-> "u3", company |-> Some(CoBolt),
   location |-> Some(LocRemote), description |-> None,
   salary_min |-> Some(40), salary_max |-> Some(80), remote_work |-> FALSE]

JobPool == {JobPlain, JobRich, JobTwin, JobSparse, JobOther}

(***************************************************************************)
(* quality_filter.quality_score, in hundredths (round(score, 2) * 100).    *)
(***************************************************************************)
QualityThreshold == 60

TitleWellFormed(title) ==
  /\ title # <<>>
  /\ LetterCount(title) > 0
  /\ 10 <= Len(title) /\ Len(title) <= 100
  /\ 2 * CapsCount(title) < LetterCount(title)

quality_score(job) ==
    (IF TruthyStr(job.company) /\ Len(Strip(job.company[1])) > 0 THEN 30 ELSE 0)
  + (IF TruthyDesc(job.description) /\ DescStripLen(job.description[1]) > 100
     THEN 20 ELSE 0)
  + (IF TruthyStr(job.location) /\ Len(Strip(job.location[1])) > 0 THEN 20 ELSE 0)
  + (IF TruthyInt(job.salary_min) \/ TruthyInt(job.salary_max) THEN 20 ELSE 0)
  + (IF TitleWellFormed(job.title) THEN 10 ELSE 0)

(***************************************************************************)
(* utils/deduplication.py                                                  *)
(***************************************************************************)
BatchFuzzyThreshold == 90
FuzzyThreshold == 90
DaysLookback == 90
MinLength == 5

\* A comparison that finds every two keys similar.
AlwaysSimilar(r, n) == TRUE

\* ratio >= n, for a ratio kept as a fraction.
RatioAtLeast(r, n) == r[1] >= n * r[2]

\* f"{job.title.lower()}_{job.company.lower() if job.company else ''}"
JobKey(job) ==
  Lower(job.title) \o <<"_">> \o
  (IF TruthyStr(job.company) THEN Lower(job.company[1]) ELSE <<>>)

RECURSIVE DedupLoop(_, _, _, _)
DedupLoop(rest, seen_urls, seen_titles, unique_jobs) ==
  IF rest = <<>> THEN unique_jobs
  ELSE LET job == Head(rest)
           job_key == JobKey(job)
           is_fuzzy_dup ==
             \E seen_key \in seen_titles :
                RatioAtLeast(FuzzRatio(job_key, seen_key), BatchFuzzyThreshold)
       IN IF job.url \in seen_urls \/ is_fuzzy_dup
          THEN DedupLoop(Tail(rest), seen_urls, seen_titles, unique_jobs)
          ELSE DedupLoop(Tail(rest), seen_urls \cup {job.url},
                         seen_titles \cup {job_key}, Append(unique_jobs, job))

cross_source_dedup(jobs) == DedupLoop(jobs, {}, {}, <<>>)

\* 0.7 * title_similarity + 0.3 * company_similarity >= threshold
CombinedAtLeast(ts, cs, threshold) ==
  7 * ts[1] * cs[2] + 3 * cs[1] * ts[2] >= 10 * threshold * ts[2] * cs[2]

\* The rows the fuzzy pass of is_duplicate accepts for `job`.
FuzzyMatches(table, job, fuzzy_threshold, days_lookback, min_length) ==
  {i \in 1..Len(table) :
     LET existing_job == table[i] IN
       /\ existing_job.age_days <= days_lookback
       /\ existing_job.is_active
       /\ TruthyStr(existing_job.company) /\ TruthyStr(job.company)
       /\ Len(existing_job.company[1]) >= min_length
       /\ Len(job.company[1]) >= min_length
       /\ Len(existing_job.title) >= min_length
       /\ Len(job.title) >= min_length
       /\ CombinedAtLeast(
            FuzzRatio(Lower(job.title), Lower(existing_job.title)),
            FuzzRatio(Lower(job.company[1]), Lower(existing_job.company[1])),
            fuzzy_threshold)}

\* The URL check looks at active rows only.
ActiveUrlMatches(table, job) ==
  {i \in 1..Len(table) : table[i].url = job.url /\ table[i].is_active}

\* Rows whose url equals the candidate's (select(Job).where(Job.url == job.url)).
UrlMatches(table, job) == {i \in 1..Len(table) : table[i].url = job.url}

\* is_duplicate: the set of results it can return.  scalar_one_or_none()
\* raises when several rows match; the fuzzy scan returns the first match
\* of a SELECT that states no order, so any match can be the one returned.
is_duplicate(table, job, fuzzy_threshold, days_lookback, min_length) ==
  LET byUrl == UrlMatches(table, job)
      fuzzy == FuzzyMatches(table, job, fuzzy_threshold, days_lookback, min_length)
  IN IF Cardinality(byUrl) > 1
       THEN {[raised |-> TRUE, is_dup |-> FALSE, id |-> 0]}
     ELSE IF byUrl # {}
       THEN {[raised |-> FALSE, is_dup |-> TRUE, id |-> table[i].id] : i \in byUrl}
     ELSE IF fuzzy # {}
       THEN {[raised |-> FALSE, is_dup |-> TRUE, id |-> table[i].id] : i \in fuzzy}
     ELSE {[raised |-> FALSE, is_dup |-> FALSE, id |-> 0]}

\* A merge that takes the candidate's salary whatever the row has.
OverwriteRow(existing_job, new_job_data, now) ==
  [existing_job EXCEPT !.salary_min = new_job_data.salary_min, !.updated_at = now]

\* merge_duplicate_metadata on the row it found: the row after the merge.
MergeRow(existing_job, new_job_data, now) ==
  LET d == IF TruthyDesc(new_job_data.description)
              /\ (~TruthyDesc(existing_job.description)
                  \/ DescLen(new_job_data.description[1])
                       > DescLen(existing_job.description[1]))
           THEN new_job_data.description ELSE existing_job.description
      smin == IF TruthyInt(new_job_data.salary_min) /\ ~TruthyInt(existing_job.salary_min)
              THEN new_job_data.salary_min ELSE existing_job.salary_min
      smax == IF TruthyInt(new_job_data.salary_max) /\ ~TruthyInt(existing_job.salary_max)
              THEN new_job_data.salary_max ELSE existing_job.salary_max
      loc == IF TruthyStr(new_job_data.location) /\ ~TruthyStr(existing_job.location)
             THEN new_job_data.location ELSE existing_job.location
      rem == IF new_job_data.remote_work /\ ~existing_job.remote_work
             THEN TRUE ELSE existing_job.remote_work
      merged == [existing_job EXCEPT !.description = d, !.salary_min = smin,
                   !.salary_max = smax, !.location = loc, !.remote_work = rem]
  IN IF merged # existing_job THEN [merged EXCEPT !.updated_at = now] ELSE existing_job

\* merge_duplicate_metadata(session, existing_job_id, new_job_data): the table
\* after its commit; a missing id changes nothing.
merge_duplicate_metadata(table, existing_job_id, new_job_data, now) ==
  [i \in 1..Len(table) |->
     IF table[i].id = existing_job_id
     THEN MergeRow(table[i], new_job_data, now) ELSE table[i]]

(***************************************************************************)
(* The database and the workers.                                           *)
(***************************************************************************)
\* Keys of SourceRegistry.SCRAPERS that the model runs.
ScraperNames == {"RemoteOK", "Himalayas", "Jobicy"}

\* Names of the job_sources rows (the seeded sources); "Jobicy" has a scraper
\* class and no row.
SourceRows == {"RemoteOK", "Himalayas"}

\* Names a run_scraper task can be given; "Unlisted" has no scraper class.
TaskArgs == ScraperNames \cup {"Unlisted"}

\* Ids the admin endpoints can be given (a row's id is its name here).
SourceIds == SourceRows \cup {"no-such-id"}

Workers == {"w1", "w2"}

TaskNames == {"run_scraper", "run_all_scrapers", "health_check_task"}

Levels == {"info", "warning", "error"}

\* Operations started in one behaviour where tasks run side by side
\* (scraper runs, health checks, admin requests), scraper runs where they run
\* one after the other, entries of one parsed feed, and the largest
\* max_retries a scraper is built with.
MaxTasks == 2
MaxRuns == 1
MaxFeed == 2
MaxRetries == 3

VARIABLES
  fetch,      \* one BaseScraper.fetch(url) call in progress
  sources,    \* job_sources: name -> row
  jobs,       \* jobs: the committed rows, in insertion order
  logs,       \* scraper_logs: source -> level -> number of rows
  worker,     \* worker process -> what its task is doing
  sessions,   \* worker process -> task -> its _session is open
  clock,      \* operations started so far; also the value of utcnow()
  users,      \* users: the committed rows, in insertion order
  tokens,     \* verification_tokens: the committed rows
  prefs,      \* user_preferences: the committed rows
  api,        \* API client -> the request it has in flight, or its last reply
  digest,     \* the digest job of the scheduler
  schema      \* the database schema: its revision and its objects

vars == <<fetch, sources, jobs, logs, worker, sessions, clock,
          users, tokens, prefs, api, digest, schema>>

\* The tables and processes of the ingestion pipeline, and those of the
\* account side (API and digest scheduler).
pipelineVars == <<fetch, sources, jobs, logs, worker, sessions>>

accountVars == <<users, tokens, prefs, api, digest, schema>>

RECURSIVE GCD(_, _)
GCD(a, b) == IF b = 0 THEN a ELSE GCD(b, a % b)

\* (total_jobs_found / total_attempts) * 100 as a fraction in lowest terms.
SuccessRate(total_jobs_found, total_attempts) ==
  LET g == GCD(100 * total_jobs_found, total_attempts)
  IN <<(100 * total_jobs_found) \div g, total_attempts \div g>>

\* A job_sources row as the seed script leaves it.
SeededSource ==
  [is_active |-> TRUE, last_scraped_at |-> None, total_jobs_found |-> 0,
   total_errors |-> 0, success_rate |-> None]

\* A jobs row for a candidate; the candidates of the model name no job type
\* and no posting date, so that posted_at is the time of the save.
JobRow(job_data, id, quality, source, now) ==
  [id |-> id, title |-> job_data.title, url |-> job_data.url,
   company |-> job_data.company, location |-> job_data.location,
   description |-> job_data.description, salary_min |-> job_data.salary_min,
   salary_max |-> job_data.salary_max, remote_work |-> job_data.remote_work,
   quality_score |-> quality, source |-> source, is_active |-> TRUE,
   job_type |-> None, posted_at |-> Some(now),
   age_days |-> 0, created_at |-> now, updated_at |-> now]

\* A row that predates the quality column: inactive, older than the lookback
\* window, at the URL of JobPlain and with the title and company of JobTwin.
LegacyRow ==
  [JobRow([JobTwin EXCEPT !.url = "u1"], 1, None, "RemoteOK", 0)
     EXCEPT !.is_active = FALSE, !.age_days = 120]

InitialTables == {<<>>, <<LegacyRow>>}

(***************************************************************************)
(* BaseScraper.fetch                                                       *)
(***************************************************************************)
DefaultMaxRetries == 3
DefaultRateLimitDelay == 1

\* What one HTTP attempt can meet: a final response (after redirects) with a
\* status and a body, a network-level error (httpx.RequestError) or any
\* other exception.
Responses ==
  {[kind |-> "response", status |-> 200, body |-> "feed"],
   [kind |-> "response", status |-> 200, body |-> ""],
   [kind |-> "response", status |-> 404, body |-> "not found"],
   [kind |-> "response", status |-> 429, body |-> "slow down"],
   [kind |-> "response", status |-> 503, body |-> "unavailable"],
   [kind |-> "request_error", status |-> 0, body |-> ""],
   [kind |-> "other_error", status |-> 0, body |-> ""]}

\* A backoff that grows linearly instead of exponentially.
LinearBackoff(n) == 2 * n

RECURSIVE Pow2(_)
Pow2(n) == IF n = 0 THEN 1 ELSE 2 * Pow2(n - 1)

\* response.raise_for_status() raises httpx.HTTPStatusError
RaisesForStatus(resp) == resp.status >= 400

\* fetch() before its first attempt: `for attempt in range(self.max_retries)`.
FetchStart(max_retries, rate_limit_delay) ==
  [max_retries |-> max_retries, rate_limit_delay |-> rate_limit_delay,
   attempt |-> 0, done |-> max_retries = 0, result |-> None,
   sleeps |-> <<>>, seen |-> <<>>]

\* The loop variable moves on: the next attempt, or `return None` after the last.
FetchContinue(f, slept) ==
  [f EXCEPT !.attempt = f.attempt + 1,
            !.done = (f.attempt + 1 >= f.max_retries),
            !.sleeps = f.sleeps \o slept]

\* One iteration of the retry loop, meeting `resp`.
FetchAttempt(f, resp) ==
  LET g == [f EXCEPT !.seen = Append(f.seen, resp)] IN
  CASE resp.kind = "response" /\ ~RaisesForStatus(resp) ->
         [g EXCEPT !.done = TRUE, !.result = Some(resp.body),
                   !.sleeps = IF g.rate_limit_delay > 0
                              THEN Append(g.sleeps, g.rate_limit_delay)
                              ELSE g.sleeps]
    [] resp.kind = "response" /\ RaisesForStatus(resp) ->
         IF resp.status = 429 THEN FetchContinue(g, <<Pow2(g.attempt)>>)
         ELSE IF resp.status >= 500 THEN FetchContinue(g, <<Pow2(g.attempt)>>)
         ELSE [g EXCEPT !.done = TRUE]
    [] resp.kind = "request_error" -> FetchContinue(g, <<Pow2(g.attempt)>>)
    [] OTHER -> FetchContinue(g, <<>>)

\* fetch() run to its end against the responses rs (one per attempt made).
RECURSIVE FetchRun(_, _)
FetchRun(f, rs) ==
  IF f.done \/ rs = <<>> THEN f ELSE FetchRun(FetchAttempt(f, Head(rs)), Tail(rs))

\* Everything fetch() can return with the scrapers' default parameters.
FetchResults ==
  {FetchRun(FetchStart(DefaultMaxRetries, DefaultRateLimitDelay), rs).result :
     rs \in [1..DefaultMaxRetries -> Responses]}

\* `if not content` fails: there is a body and it is not empty.
HasContent(content) == content # None /\ content[1] # ""

(***************************************************************************)
(* BaseScraper.save, first pass (the loop over the batch).                 *)
(***************************************************************************)
\* All feeds parse() can return: up to MaxFeed of the candidates.
Feeds == UNION {[1..n -> JobPool] : n \in 0..MaxFeed}

\* save() when its loop starts.
SaveStart(table) ==
  [table |-> table, jobs_to_insert |-> <<>>, duplicate_count |-> 0,
   error_count |-> 0, decisions |-> <<>>]

Decision(job_data, quality, verdict, existing_id) ==
  [job |-> job_data, quality |-> quality, verdict |-> verdict,
   existing_id |-> existing_id]

\* The quality filter is skipped.
NothingFiltered(quality) == FALSE

\* `if quality < 0.6`
LowQuality(quality) == quality < QualityThreshold

\* One iteration of the loop for job_data: the states it can leave.
SaveOne(st, job_data, source, now) ==
  LET quality == quality_score(job_data) IN
  IF LowQuality(quality)
  THEN {[st EXCEPT !.error_count = st.error_count + 1,
                   !.decisions = Append(st.decisions,
                       Decision(job_data, quality, "low_quality", 0))]}
  ELSE {IF r.raised
        THEN [st EXCEPT !.error_count = st.error_count + 1,
                        !.decisions = Append(st.decisions,
                            Decision(job_data, quality, "error", 0))]
        ELSE IF r.is_dup
        THEN [st EXCEPT !.duplicate_count = st.duplicate_count + 1,
                        !.table = merge_duplicate_metadata(st.table, r.id, job_data, now),
                        !.decisions = Append(st.decisions,
                            Decision(job_data, quality, "duplicate", r.id))]
        ELSE [st EXCEPT !.jobs_to_insert =
                            Append(st.jobs_to_insert,
                                   JobRow(job_data, 0, Some(quality), source, now)),
                        !.decisions = Append(st.decisions,
                            Decision(job_data, quality, "queued", 0))]
        : r \in is_duplicate(st.table, job_data, FuzzyThreshold, DaysLookback, MinLength)}

RECURSIVE SaveLoop(_, _, _, _)
SaveLoop(st, rest, source, now) ==
  IF rest = <<>> THEN {st}
  ELSE UNION {SaveLoop(st2, Tail(rest), source, now) :
                st2 \in SaveOne(st, Head(rest), source, now)}

\* The states save() can be in when its loop over cross_source_dedup(jobs) ends.
SavePass(table, feed, source, now) ==
  SaveLoop(SaveStart(table), cross_source_dedup(feed), source, now)

\* The url column carries no unique constraint.
Unconstrained(table, rows) == TRUE

\* The unique constraint on jobs.url: the rows can be inserted together.
UrlsUnique(table, rows) ==
  /\ \A i \in 1..Len(rows) : \A k \in 1..Len(table) : table[k].url # rows[i].url
  /\ \A i, k \in 1..Len(rows) : i # k => rows[i].url # rows[k].url

\* bulk_insert_mappings + commit: the rows get their ids and are appended.
InsertRows(table, rows) ==
  table \o [i \in 1..Len(rows) |-> [rows[i] EXCEPT !.id = Len(table) + i]]

\* The batch is committed up to the row that failed.
FirstRowKept(table, rows) == InsertRows(table, <<rows[1]>>)

\* `self.session.rollback()` after the failed insert of rows: nothing of the
\* batch stays.
rollback(table, rows) == table

\* Only the failed insert is noted, as one error.
OneErrorCounted(error_count, rows) == error_count + 1

\* `error_count += len(jobs_to_insert)`
FailedBatchCounted(error_count, rows) == error_count + Len(rows)

(***************************************************************************)
(* Worker state.                                                           *)
(***************************************************************************)
NoLogs == [l \in Levels |-> 0]

\* self.source and the source's log counts as run() found them.
Snapshot(src) == [row |-> sources[src], logs |-> logs[src]]

NoSnapshot == [row |-> SeededSource, logs |-> NoLogs]

NoSave ==
  [jobs_to_insert |-> <<>>, duplicate_count |-> 0, error_count |-> 0,
   decisions |-> <<>>]

NoSummary == [saved |-> 0, duplicates |-> 0, errors |-> 0, total_processed |-> 0]

\* The last run() a worker finished (history: what the run found and left).
NoRun ==
  [kind |-> "none", src |-> "", ret |-> 0, raised |-> FALSE,
   pre |-> NoSnapshot, post |-> NoSnapshot,
   queued |-> 0, inserted |-> 0, summary |-> None, now |-> 0]

NoReturn == [task |-> "none", raised |-> FALSE, value |-> <<>>]

IdleWorker ==
  [task |-> "idle", pc |-> "idle", src |-> "", kind |-> "none",
   pre |-> NoSnapshot, save |-> NoSave, saved_count |-> 0, inserted |-> 0,
   summary |-> None, rd |-> SeededSource,
   queue |-> <<>>, listed |-> <<>>, invoked |-> <<>>, results |-> <<>>,
   runs |-> 0, last |-> NoRun, ret |-> NoReturn]

\* self.session of task t on worker w: opened on first use.
Opened(sess, w, t) == [sess EXCEPT ![w][t] = TRUE]

\* DatabaseTask.after_return of task t on worker w.
after_return(sess, w, t) == [sess EXCEPT ![w][t] = FALSE]

\* log_scraper_event: one more scraper_logs row of that level, committed.
log_scraper_event(lg, src, level) == [lg EXCEPT ![src][level] = @ + 1]

\* All orders in which a SELECT without ORDER BY can return the rows S.
Orders(S) ==
  {f \in [1..Cardinality(S) -> S] : \A i, k \in DOMAIN f : i # k => f[i] # f[k]}

\* The entries are counted instead of their jobs.
EntriesCounted(results) == Len(results)

RECURSIVE SumSaved(_)
\* sum(r.get('jobs_saved', 0) for r in results if r.get('success'))
SumSaved(results) ==
  IF results = <<>> THEN 0
  ELSE (IF Head(results).success /\ Head(results).jobs_saved # None
        THEN Head(results).jobs_saved[1] ELSE 0) + SumSaved(Tail(results))

\* The dictionaries run_scraper returns.
ScraperResult(name, jobs_saved) ==
  [success |-> TRUE, source_name |-> name, jobs_saved |-> Some(jobs_saved),
   error |-> None]

ScraperNotFound(name) ==
  [success |-> FALSE, source_name |-> name, jobs_saved |-> None,
   error |-> Some("Scraper not found")]

\* The entry run_all_scrapers records for a run_scraper call that raised.
FailedResult(name) ==
  [success |-> FALSE, source_name |-> name, jobs_saved |-> None,
   error |-> Some("exception")]

(***************************************************************************)
(* tasks.run_scraper and BaseScraper.run                                   *)
(***************************************************************************)
ClearRun(wk) ==
  [wk EXCEPT !.src = "", !.kind = "none", !.pre = NoSnapshot, !.save = NoSave,
             !.saved_count = 0, !.inserted = 0, !.summary = None,
             !.rd = SeededSource]

\* run_scraper returns `result` or raises.  As the worker's own task, its
\* outcome goes to the worker, which calls after_return next; called directly
\* by run_all_scrapers (tasks.py line 116) it hands the result, or the
\* exception, to that loop.
EndScraper(w, wk, name, raised, result) ==
  IF wk.task = "run_scraper"
  THEN /\ worker' = [worker EXCEPT ![w] =
            [ClearRun(wk) EXCEPT !.pc = "returned",
               !.ret = [task |-> "run_scraper", raised |-> raised,
                        value |-> IF raised THEN <<>> ELSE <<result>>]]]
       /\ sessions' = Opened(sessions, w, "run_scraper")
  ELSE /\ worker' = [worker EXCEPT ![w] =
            [ClearRun(wk) EXCEPT !.pc = "next",
               !.results = Append(wk.results,
                                  IF raised THEN FailedResult(name) ELSE result)]]
       /\ sessions' = Opened(sessions, w, "run_scraper")

\* run() is over: what it found, what it left, what it returned.
Finished(wk, kind, src, ret, pre, post) ==
  [wk EXCEPT !.last =
     [kind |-> kind, src |-> src, ret |-> ret, raised |-> (kind = "raised"),
      pre |-> pre, post |-> post,
      queued |-> Len(wk.save.jobs_to_insert), inserted |-> wk.inserted,
      summary |-> wk.summary, now |-> clock]]

\* The is_active flag is not looked at.
ActiveOrNot(row) == TRUE

\* `if not self.source.is_active`
SourceActive(row) == row.is_active

\* run_scraper(source_name) up to the point where run() has resolved its
\* source.  `raises`: the lookup of the source (base.py line 280, outside the
\* try block of run) raises.
RunScraperBody(w, wk, name, raises) ==
  IF name \notin ScraperNames
    THEN /\ EndScraper(w, wk, name, FALSE, ScraperNotFound(name))
         /\ UNCHANGED <<sources, jobs, logs>>
  ELSE IF raises
    THEN /\ EndScraper(w, Finished([wk EXCEPT !.runs = @ + 1], "raised", name, 0,
                                   NoSnapshot, NoSnapshot),
                       name, TRUE, ScraperResult(name, 0))
         /\ UNCHANGED <<sources, jobs, logs>>
  ELSE IF name \notin SourceRows
    THEN /\ EndScraper(w, Finished([wk EXCEPT !.runs = @ + 1], "not_found", name, 0,
                                   NoSnapshot, NoSnapshot),
                       name, FALSE, ScraperResult(name, 0))
         /\ UNCHANGED <<sources, jobs, logs>>
  ELSE IF ~SourceActive(sources[name])
    THEN /\ EndScraper(w, Finished([wk EXCEPT !.runs = @ + 1], "inactive", name, 0,
                                   Snapshot(name), Snapshot(name)),
                       name, FALSE, ScraperResult(name, 0))
         /\ UNCHANGED <<sources, jobs, logs>>
  ELSE /\ worker' = [worker EXCEPT ![w] =
            [wk EXCEPT !.pc = "fetch", !.src = name, !.runs = @ + 1,
                       !.pre = Snapshot(name), !.last = NoRun]]
       /\ sessions' = Opened(sessions, w, "run_scraper")
       /\ UNCHANGED <<sources, jobs, logs>>

\* A worker takes a run_scraper(name) task from the queue.
StartRunScraper(w, name, raises) ==
  /\ worker[w].task = "idle"
  /\ clock' = clock + 1
  /\ RunScraperBody(w, [worker[w] EXCEPT !.task = "run_scraper"], name, raises)
  /\ UNCHANGED fetch
  /\ UNCHANGED accountVars

\* The except branch of run() and its failed-fetch branch, up to the commit of
\* the error event: the event is written, and `self.source.total_errors += 1`
\* has read the row back (the commit expired it).
RunFailed(w, kind, newJobs) ==
  LET src == worker[w].src
      newLogs == log_scraper_event(logs, src, "error")
  IN /\ logs' = newLogs
     /\ jobs' = newJobs
     /\ worker' = [worker EXCEPT ![w].pc = "errw", ![w].kind = kind,
                                 ![w].rd = sources[src]]
     /\ UNCHANGED <<sources, sessions>>

\* fetch, parse and the first pass of save.
RunPipeline(w, content, parse_raises, feed) ==
  LET wk == worker[w]
      src == wk.src
  IN /\ wk.pc = "fetch"
     /\ IF ~HasContent(content)
          THEN RunFailed(w, "fetch_failed", jobs)
        ELSE IF parse_raises
          THEN RunFailed(w, "exception", jobs)
        ELSE IF feed = <<>>
          THEN LET newLogs == log_scraper_event(logs, src, "warning")
               IN /\ logs' = newLogs
                  /\ EndScraper(w, Finished(wk, "no_jobs", src, 0, wk.pre,
                                    [row |-> sources[src], logs |-> newLogs[src]]),
                                src, FALSE, ScraperResult(src, 0))
                  /\ UNCHANGED <<sources, jobs>>
        ELSE \E st \in SavePass(jobs, feed, src, clock) :
               /\ jobs' = st.table
               /\ worker' = [worker EXCEPT ![w].pc = "insert",
                     ![w].kind = "saving",
                     ![w].save = [jobs_to_insert |-> st.jobs_to_insert,
                                  duplicate_count |-> st.duplicate_count,
                                  error_count |-> st.error_count,
                                  decisions |-> st.decisions]]
               /\ UNCHANGED <<sources, logs, sessions>>
     /\ UNCHANGED <<fetch, clock>>
     /\ UNCHANGED accountVars

\* The bulk insert of save(), its summary event, and the read of the source
\* row that follows the event's commit.  `db_error`: the database refuses the
\* insert for a reason other than the URL constraint; `log_raises`: writing
\* the summary event raises, so the exception leaves save().
BulkInsert(w, db_error, log_raises) ==
  LET wk == worker[w]
      src == wk.src
      rows == wk.save.jobs_to_insert
      ok == rows # <<>> /\ ~db_error /\ UrlsUnique(jobs, rows)
      newJobs == IF rows = <<>> THEN jobs
                 ELSE IF ok THEN InsertRows(jobs, rows) ELSE rollback(jobs, rows)
      saved_count == IF ok THEN Len(rows) ELSE 0
      error_count == IF rows # <<>> /\ ~ok
                     THEN FailedBatchCounted(wk.save.error_count, rows)
                     ELSE wk.save.error_count
      summary == [saved |-> saved_count, duplicates |-> wk.save.duplicate_count,
                  errors |-> error_count,
                  total_processed |-> Len(wk.save.decisions)]
  IN /\ wk.pc = "insert"
     /\ IF log_raises
          THEN /\ logs' = log_scraper_event(logs, src, "error")
               /\ jobs' = newJobs
               /\ worker' = [worker EXCEPT ![w].pc = "errw", ![w].kind = "exception",
                     ![w].inserted = saved_count, ![w].rd = sources[src]]
          ELSE /\ logs' = log_scraper_event(logs, src, "info")
               /\ jobs' = newJobs
               /\ worker' = [worker EXCEPT ![w].pc = "stats", ![w].kind = "saved",
                     ![w].saved_count = saved_count, ![w].inserted = saved_count,
                     ![w].summary = Some(summary), ![w].rd = sources[src]]
     /\ UNCHANGED <<fetch, sources, sessions, clock>>
     /\ UNCHANGED accountVars

\* The success rate is computed before the new jobs are added to the total.
StaleRateStats(row, rd, saved_count, now) ==
  [row EXCEPT !.last_scraped_at = Some(now),
              !.total_jobs_found = rd.total_jobs_found + saved_count,
              !.success_rate =
                 IF rd.total_jobs_found + rd.total_errors > 0
                 THEN Some(SuccessRate(rd.total_jobs_found,
                                       rd.total_jobs_found + rd.total_errors))
                 ELSE rd.success_rate]

\* The source row after lines 326-334 of run(): the flush writes the columns
\* the run has changed, computed from the row it read.
UpdatedStats(row, rd, saved_count, now) ==
  LET total_jobs_found == rd.total_jobs_found + saved_count
      total_attempts == total_jobs_found + rd.total_errors
      success_rate == IF total_attempts > 0
                      THEN Some(SuccessRate(total_jobs_found, total_attempts))
                      ELSE rd.success_rate
  IN [row EXCEPT !.last_scraped_at = Some(now),
                 !.total_jobs_found =
                    IF total_jobs_found # rd.total_jobs_found THEN total_jobs_found ELSE @,
                 !.success_rate =
                    IF success_rate # rd.success_rate THEN success_rate ELSE @]

\* The commit of the statistics, and the return of run().
StatsCommit(w) ==
  LET wk == worker[w]
      src == wk.src
      newSources == [sources EXCEPT ![src] = UpdatedStats(@, wk.rd, wk.saved_count, clock)]
  IN /\ wk.pc = "stats"
     /\ sources' = newSources
     /\ EndScraper(w, Finished(wk, "saved", src, wk.saved_count, wk.pre,
                       [row |-> newSources[src], logs |-> logs[src]]),
                   src, FALSE, ScraperResult(src, wk.saved_count))
     /\ UNCHANGED <<fetch, jobs, logs, clock>>
     /\ UNCHANGED accountVars

\* The error is logged but not counted.
ErrorNotCounted(row, rd) == row

\* `self.source.total_errors += 1` on the row the run read.
CountedError(row, rd) == [row EXCEPT !.total_errors = rd.total_errors + 1]

\* The commit of total_errors, and `return 0`.
ErrorCommit(w) ==
  LET wk == worker[w]
      src == wk.src
      newSources == [sources EXCEPT ![src] = CountedError(@, wk.rd)]
  IN /\ wk.pc = "errw"
     /\ sources' = newSources
     /\ EndScraper(w, Finished(wk, wk.kind, src, 0, wk.pre,
                       [row |-> newSources[src], logs |-> logs[src]]),
                   src, FALSE, ScraperResult(src, 0))
     /\ UNCHANGED <<fetch, jobs, logs, clock>>
     /\ UNCHANGED accountVars

(***************************************************************************)
(* tasks.run_all_scrapers, tasks.health_check_task, enable and disable     *)
(***************************************************************************)
\* SourceRegistry.get_active_sources
get_active_sources == {s \in SourceRows : sources[s].is_active}

\* The dictionaries run_all_scrapers returns.
NoActiveSources ==
  [success |-> TRUE, total_sources |-> 0, total_jobs_saved |-> None, results |-> <<>>]

AllResults(listed, results) ==
  [success |-> TRUE, total_sources |-> Len(listed),
   total_jobs_saved |-> Some(SumSaved(results)), results |-> results]

\* A worker takes a run_all_scrapers task and lists the active sources.
RunAllStart(w) ==
  /\ worker[w].task = "idle"
  /\ IF get_active_sources = {}
       THEN /\ worker' = [worker EXCEPT ![w] =
                 [@ EXCEPT !.task = "run_all_scrapers", !.pc = "returned",
                           !.ret = [task |-> "run_all_scrapers", raised |-> FALSE,
                                    value |-> <<NoActiveSources>>]]]
            /\ sessions' = Opened(sessions, w, "run_all_scrapers")
       ELSE /\ \E order \in Orders(get_active_sources) :
                 worker' = [worker EXCEPT ![w] =
                   [@ EXCEPT !.task = "run_all_scrapers", !.pc = "next",
                             !.queue = order, !.listed = order,
                             !.invoked = <<>>, !.results = <<>>]]
            /\ sessions' = Opened(sessions, w, "run_all_scrapers")
  /\ UNCHANGED <<fetch, sources, jobs, logs, clock>>
  /\ UNCHANGED accountVars

\* The loop of run_all_scrapers: the next run_scraper(source.name), called
\* directly, or the end of the loop and the return of the task.
RunAllNext(w, raises) ==
  LET wk == worker[w] IN
  /\ wk.task = "run_all_scrapers"
  /\ wk.pc = "next"
  /\ IF wk.queue = <<>>
       THEN /\ ~raises
            /\ worker' = [worker EXCEPT ![w] =
                 [@ EXCEPT !.pc = "returned",
                           !.ret = [task |-> "run_all_scrapers", raised |-> FALSE,
                                    value |-> <<AllResults(wk.listed, wk.results)>>]]]
            /\ UNCHANGED <<sources, jobs, logs, sessions, clock>>
       ELSE /\ clock' = clock + 1
            /\ RunScraperBody(w, [wk EXCEPT !.queue = Tail(@),
                                            !.invoked = Append(@, Head(wk.queue))],
                              Head(wk.queue), raises)
  /\ UNCHANGED fetch
  /\ UNCHANGED accountVars

\* detect_source_degradation: at least half of the source's events are errors.
detect_source_degradation(lg) ==
  LET total == lg["info"] + lg["warning"] + lg["error"]
  IN total > 0 /\ 2 * lg["error"] >= total

\* A worker runs health_check_task: it only reads.
HealthCheck(w) ==
  /\ worker[w].task = "idle"
  /\ clock' = clock + 1
  /\ worker' = [worker EXCEPT ![w] =
       [@ EXCEPT !.task = "health_check_task", !.pc = "returned",
          !.ret = [task |-> "health_check_task", raised |-> FALSE,
                   value |-> <<[success |-> TRUE,
                                total_sources |-> Cardinality(SourceRows),
                                degraded_sources |->
                                  {s \in SourceRows :
                                     detect_source_degradation(logs[s])}]>>]]]
  /\ sessions' = Opened(sessions, w, "health_check_task")
  /\ UNCHANGED <<fetch, sources, jobs, logs>>
  /\ UNCHANGED accountVars

\* The worker process is done with the task: it calls the task's after_return
\* and is free for the next one.
AfterReturn(w) ==
  /\ worker[w].pc = "returned"
  /\ sessions' = after_return(sessions, w, worker[w].task)
  /\ worker' = [worker EXCEPT ![w] = IdleWorker]
  /\ UNCHANGED <<fetch, sources, jobs, logs, clock>>
  /\ UNCHANGED accountVars

\* A write of is_active that reaches every row.
SetEverySource(table, source_id, value) ==
  [ok |-> TRUE, sources |-> [s \in DOMAIN table |-> [table[s] EXCEPT !.is_active = value]]]

\* The body shared by SourceRegistry.enable_source and disable_source: the
\* row is selected by id; without one the method returns False, with one it
\* sets is_active, commits and returns True.
SetIsActive(table, source_id, value) ==
  IF source_id \notin DOMAIN table
  THEN [ok |-> FALSE, sources |-> table]
  ELSE [ok |-> TRUE, sources |-> [table EXCEPT ![source_id].is_active = value]]

\* SourceRegistry.enable_source / disable_source, from the admin API.
enable_source(source_id) ==
  /\ source_id \in SourceRows
  /\ sources' = [sources EXCEPT ![source_id].is_active = TRUE]
  /\ clock' = clock + 1
  /\ UNCHANGED <<fetch, jobs, logs, worker, sessions>>
  /\ UNCHANGED accountVars

disable_source(source_id) ==
  /\ source_id \in SourceRows
  /\ sources' = [sources EXCEPT ![source_id].is_active = FALSE]
  /\ clock' = clock + 1
  /\ UNCHANGED <<fetch, jobs, logs, worker, sessions>>
  /\ UNCHANGED accountVars

(***************************************************************************)
(* alembic/versions: the schema as a set of objects, the operations of a   *)
(* migration, and the two migration scripts.  Column types and defaults    *)
(* are left out; a relation name (table, index, unique constraint) is      *)
(* taken once.                                                             *)
(***************************************************************************)
Table(name) == [kind |-> "table", table |-> name, name |-> name, cols |-> {}]

Column(table, name) == [kind |-> "column", table |-> table, name |-> name, cols |-> {}]

Index(name, table, columns) ==
  [kind |-> "index", table |-> table, name |-> name, cols |-> columns]

Unique(name, table, columns) ==
  [kind |-> "unique", table |-> table, name |-> name, cols |-> columns]

\* The schema the first of the two migrations starts from: the tables of
\* revision 001_initial_tables with the columns the migrations refer to.
BaselineObjects ==
  {Table(t) : t \in {"users", "job_sources", "jobs", "user_preferences",
                     "verification_tokens"}}
  \cup {Column("job_sources", c) : c \in {"id", "name", "source_type", "is_active"}}
  \cup {Column("jobs", c) : c \in {"id", "source_id", "title", "company", "url",
                                   "posted_at", "created_at"}}
  \cup {Column("user_preferences", c) : c \in {"id", "user_id", "keywords"}}
  \cup {Column("users", c) : c \in {"id", "email"}}
  \cup {Column("verification_tokens", c) : c \in {"id", "user_id", "token"}}

\* The operations of alembic's `op`.
add_column(table, name) ==
  [op |-> "add_column", table |-> table, name |-> name, cols |-> {}, refs |-> {}]

create_table(name, columns, references) ==
  [op |-> "create_table", table |-> name, name |-> name, cols |-> columns,
   refs |-> references]

create_unique_constraint(name, table, columns) ==
  [op |-> "create_unique_constraint", table |-> table, name |-> name,
   cols |-> columns, refs |-> {}]

create_index(name, table, columns) ==
  [op |-> "create_index", table |-> table, name |-> name, cols |-> columns,
   refs |-> {}]

execute_alter_type(table, name) ==
  [op |-> "execute", table |-> table, name |-> name, cols |-> {}, refs |-> {}]

drop_index(name, table) ==
  [op |-> "drop_index", table |-> table, name |-> name, cols |-> {}, refs |-> {}]

drop_table(name) ==
  [op |-> "drop_table", table |-> name, name |-> name, cols |-> {}, refs |-> {}]

drop_constraint(name, table) ==
  [op |-> "drop_constraint", table |-> table, name |-> name, cols |-> {},
   refs |-> {}]

drop_column(table, name) ==
  [op |-> "drop_column", table |-> table, name |-> name, cols |-> {}, refs |-> {}]

HasTable(objects, table) == Table(table) \in objects

HasColumns(objects, table, columns) ==
  \A c \in columns : Column(table, c) \in objects

\* A table, an index or a unique constraint has the name.
NameTaken(objects, name) ==
  \E o \in objects : o.kind \in {"table", "index", "unique"} /\ o.name = name

\* The database accepts the statement.
Accepts(objects, o) ==
  CASE o.op = "add_column" ->
         HasTable(objects, o.table) /\ Column(o.table, o.name) \notin objects
    [] o.op = "create_table" ->
         ~NameTaken(objects, o.name) /\ \A t \in o.refs : HasTable(objects, t)
    [] o.op \in {"create_unique_constraint", "create_index"} ->
         /\ HasTable(objects, o.table)
         /\ HasColumns(objects, o.table, o.cols)
         /\ ~NameTaken(objects, o.name)
    [] o.op = "execute" -> Column(o.table, o.name) \in objects
    [] o.op = "drop_index" ->
         \E x \in objects : x.kind = "index" /\ x.name = o.name
    [] o.op = "drop_table" -> HasTable(objects, o.table)
    [] o.op = "drop_constraint" ->
         /\ HasTable(objects, o.table)
         /\ \E x \in objects :
              x.kind = "unique" /\ x.table = o.table /\ x.name = o.name
    [] o.op = "drop_column" -> Column(o.table, o.name) \in objects

\* The schema after an accepted statement.  A table goes with everything on
\* it, a column with the indexes and constraints that involve it.
Applied(objects, o) ==
  CASE o.op = "add_column" -> objects \cup {Column(o.table, o.name)}
    [] o.op = "create_table" ->
         objects \cup {Table(o.name)} \cup {Column(o.name, c) : c \in o.cols}
    [] o.op = "create_unique_constraint" ->
         objects \cup {Unique(o.name, o.table, o.cols)}
    [] o.op = "create_index" -> objects \cup {Index(o.name, o.table, o.cols)}
    [] o.op = "execute" -> objects
    [] o.op = "drop_index" ->
         {x \in objects : ~(x.kind = "index" /\ x.name = o.name)}
    [] o.op = "drop_table" -> {x \in objects : x.table # o.table}
    [] o.op = "drop_constraint" ->
         {x \in objects :
            ~(x.kind = "unique" /\ x.table = o.table /\ x.name = o.name)}
    [] o.op = "drop_column" ->
         {x \in objects :
            /\ x # Column(o.table, o.name)
            /\ ~(x.table = o.table /\ o.name \in x.cols)}

\* 002_enhance_job_schema
Upgrade002 ==
  <<add_column("job_sources", "priority"),
    add_column("job_sources", "last_scraped_at"),
    add_column("job_sources", "scrape_frequency"),
    add_column("job_sources", "total_jobs_found"),
    add_column("job_sources", "total_errors"),
    add_column("job_sources", "success_rate"),
    execute_alter_type("job_sources", "source_type"),
    add_column("jobs", "remote_work"),
    add_column("jobs", "job_type"),
    add_column("jobs", "is_active"),
    add_column("jobs", "updated_at"),
    create_table("job_metadata", {"id", "job_id", "key", "value", "created_at"},
                 {"jobs"}),
    create_unique_constraint("uq_job_metadata_job_key", "job_metadata",
                             {"job_id", "key"}),
    create_index("ix_job_metadata_job_key", "job_metadata", {"job_id", "key"}),
    create_table("scraper_logs",
                 {"id", "source_id", "level", "message", "metadata", "created_at"},
                 {"job_sources"}),
    create_index("ix_scraper_logs_created_at", "scraper_logs", {"created_at"}),
    create_index("ix_scraper_logs_source_created", "scraper_logs",
                 {"source_id", "created_at"}),
    create_index("ix_scraper_logs_level_created", "scraper_logs",
                 {"level", "created_at"}),
    create_index("ix_jobs_source_posted", "jobs", {"source_id", "posted_at"}),
    create_index("ix_jobs_active_created", "jobs", {"is_active", "created_at"}),
    create_index("ix_jobs_title_company", "jobs", {"title", "company"}),
    create_unique_constraint("uq_job_sources_name", "job_sources", {"name"})>>

Downgrade002 ==
  <<drop_index("ix_jobs_title_company", "jobs"),
    drop_index("ix_jobs_active_created", "jobs"),
    drop_index("ix_jobs_source_posted", "jobs"),
    drop_index("ix_scraper_logs_level_created", "scraper_logs"),
    drop_index("ix_scraper_logs_source_created", "scraper_logs"),
    drop_index("ix_scraper_logs_created_at", "scraper_logs"),
    drop_table("scraper_logs"),
    drop_index("ix_job_metadata_job_key", "job_metadata"),
    drop_table("job_metadata"),
    drop_constraint("uq_job_metadata_job_key", "job_metadata"),
    drop_column("jobs", "updated_at"),
    drop_column("jobs", "is_active"),
    drop_column("jobs", "job_type"),
    drop_column("jobs", "remote_work"),
    drop_constraint("uq_job_sources_name", "job_sources"),
    drop_column("job_sources", "success_rate"),
    drop_column("job_sources", "total_errors"),
    drop_column("job_sources", "total_jobs_found"),
    drop_column("job_sources", "scrape_frequency"),
    drop_column("job_sources", "last_scraped_at"),
    drop_column("job_sources", "priority")>>

\* 003_quality_prefs
Upgrade003 ==
  <<add_column("jobs", "quality_score"),
    create_index("ix_jobs_quality_score", "jobs", {"quality_score"}),
    add_column("user_preferences", "excluded_keywords"),
    add_column("user_preferences", "job_types"),
    add_column("user_preferences", "notification_frequency"),
    create_unique_constraint("uq_user_preferences_user_id", "user_preferences",
                             {"user_id"})>>

Downgrade003 ==
  <<drop_index("ix_jobs_quality_score", "jobs"),
    drop_column("jobs", "quality_score"),
    drop_constraint("uq_user_preferences_user_id", "user_preferences"),
    drop_column("user_preferences", "notification_frequency"),
    drop_column("user_preferences", "job_types"),
    drop_column("user_preferences", "excluded_keywords")>>

\* Migration commands in one behaviour.
MaxCommands == 18

\* The statements of a script one after the other, up to the first one the
\* database rejects: the schema reached, and the position of the rejected
\* statement (0 when all were accepted).
RECURSIVE RunScript(_, _, _)
RunScript(script, objects, i) ==
  IF i > Len(script) THEN [objects |-> objects, failed |-> 0]
  ELSE IF ~Accepts(objects, script[i]) THEN [objects |-> objects, failed |-> i]
  ELSE RunScript(script, Applied(objects, script[i]), i + 1)

Revisions == <<"001_initial_tables", "002_enhance_job_schema", "003_quality_prefs">>

UpgradeOf(n) == IF n = 2 THEN Upgrade002 ELSE Upgrade003

DowngradeOf(n) == IF n = 2 THEN Downgrade002 ELSE Downgrade003

\* The database at a revision with no migration run on it.
SchemaAt(n, objects) ==
  [revision |-> n, objects |-> objects, command |-> "none", failed |-> 0,
   before |-> objects]

\* The schema the application runs on: both migrations applied.
HeadSchema ==
  SchemaAt(3, RunScript(Upgrade003,
                        RunScript(Upgrade002, BaselineObjects, 1).objects, 1).objects)

\* One migration command (`alembic upgrade +1`, `alembic downgrade -1`)
\* running `script` and moving to revision `target`.  When a statement is
\* rejected the revision stays; with transactional DDL the statements before
\* it are rolled back, without it they stay applied.
Migrate(command, script, target, transactional) ==
  LET run == RunScript(script, schema.objects, 1)
  IN /\ clock < MaxCommands
     /\ clock' = clock + 1
     /\ schema' =
          [revision |-> IF run.failed = 0 THEN target ELSE schema.revision,
           objects |-> IF run.failed # 0 /\ transactional THEN schema.objects
                       ELSE run.objects,
           command |-> command, failed |-> run.failed,
           before |-> schema.objects]
     /\ UNCHANGED <<pipelineVars, users, tokens, prefs, api, digest>>

upgrade(transactional) ==
  /\ schema.revision < Len(Revisions)
  /\ Migrate("upgrade", UpgradeOf(schema.revision + 1), schema.revision + 1,
             transactional)

downgrade(transactional) ==
  /\ schema.revision > 1
  /\ Migrate("downgrade", DowngradeOf(schema.revision), schema.revision - 1,
             transactional)

(***************************************************************************)
(* Accounts: api/auth.py and core/security.py.  A handler runs from its    *)
(* first query to its commit without giving up the event loop, so a        *)
(* request is one step.  Times are in minutes.                             *)
(***************************************************************************)
Clients == {"c1", "c2"}

\* A client with no request sent yet.
NoRequest ==
  [op |-> "none", pc |-> "idle", user |-> 0, arg |-> <<>>, seen |-> <<>>,
   status |-> 0, out |-> <<>>]

\* The reply a client holds: the request (op, arg), the user it concerned,
\* the HTTP status and the body.
Reply(op, user, arg, status, out) ==
  [op |-> op, pc |-> "done", user |-> user, arg |-> <<arg>>, seen |-> <<>>,
   status |-> status, out |-> out]

Emails == {"ann@mail", "bob@mail"}

Passwords == {"pw1", "pw2"}

\* Token strings a verify-email request can carry: the token of registration
\* n is named n; the last one was never issued.
TokenStrings == 1..(Cardinality(Emails) + 1)

VerificationHours == 24
AccessTokenExpireMinutes == 30
RefreshTokenExpireDays == 30

\* The time that passes between two requests, and the latest time reached.
Elapsed == (VerificationHours * 60) \div 2

MaxMinutes == 2160

\* bcrypt.hashpw with a fresh salt; bcrypt.checkpw re-derives with that salt.
hash_password(password) == [scheme |-> "bcrypt", of |-> password]

verify_password(password, hashed_password) ==
  hashed_password.scheme = "bcrypt" /\ hashed_password.of = password

create_access_token(data, now) ==
  [sub |-> data.sub, email |-> data.email, type |-> "access",
   exp |-> now + AccessTokenExpireMinutes]

create_refresh_token(data, now) ==
  [sub |-> data.sub, email |-> data.email, type |-> "refresh",
   exp |-> now + RefreshTokenExpireDays * 24 * 60]

\* User(id, email, hashed_password, is_verified=False)
UserRow(id, email, hashed_password, now) ==
  [id |-> id, email |-> email, hashed_password |-> hashed_password,
   is_verified |-> FALSE, created_at |-> now, updated_at |-> now]

\* db.query(User).filter(User.email == email)
UsersWithEmail(table, email) == {i \in 1..Len(table) : table[i].email = email}

\* Registration never finds the email.
EmailNeverTaken(table, email) == FALSE

\* `if existing_user`
EmailTaken(table, email) == UsersWithEmail(table, email) # {}

\* POST /api/auth/register
register_user(c, email, password) ==
  /\ api[c].pc # "read"
  /\ IF EmailTaken(users, email)
       THEN /\ api' = [api EXCEPT ![c] = Reply("register", 0, email, 400, <<>>)]
            /\ UNCHANGED <<users, tokens>>
     ELSE IF UsersWithEmail(users, email) # {}
       THEN \* the unique constraint on users.email refuses the flush
            /\ api' = [api EXCEPT ![c] = Reply("register", 0, email, 500, <<>>)]
            /\ UNCHANGED <<users, tokens>>
     ELSE LET id == Len(users) + 1
              new_user == UserRow(id, email, hash_password(password), clock)
              verification_record ==
                [token |-> id, user_id |-> new_user.id,
                 expires_at |-> clock + VerificationHours * 60]
          IN /\ users' = Append(users, new_user)
             /\ tokens' = tokens \cup {verification_record}
             /\ api' = [api EXCEPT ![c] = Reply("register", id, email, 200, <<id>>)]
  /\ UNCHANGED <<schema, pipelineVars, clock, prefs, digest>>

\* The verified flag is not looked at.
VerifiedOrNot(user) == TRUE

\* `if not user.is_verified`
IsVerified(user) == user.is_verified

\* POST /api/auth/login
login_user(c, email, password) ==
  LET found == UsersWithEmail(users, email)
      credentials == [email |-> email, password |-> password]
  IN
  /\ api[c].pc # "read"
  /\ IF found = {}
       THEN api' = [api EXCEPT ![c] = Reply("login", 0, credentials, 401, <<>>)]
       ELSE \E i \in found :
              LET user == users[i]
                  token_data == [sub |-> user.id, email |-> user.email]
              IN IF ~verify_password(password, user.hashed_password)
                   THEN api' = [api EXCEPT ![c] = Reply("login", 0, credentials, 401, <<>>)]
                 ELSE IF ~IsVerified(user)
                   THEN api' = [api EXCEPT ![c] = Reply("login", 0, credentials, 401, <<>>)]
                 ELSE api' = [api EXCEPT ![c] =
                        Reply("login", user.id, credentials, 200,
                              <<create_access_token(token_data, clock),
                                create_refresh_token(token_data, clock)>>)]
  /\ UNCHANGED <<schema, pipelineVars, clock, users, tokens, prefs, digest>>

\* The expiry is not looked at.
NeverExpired(record, now) == FALSE

\* `if verification_record.expires_at < datetime.utcnow()`
Expired(record, now) == record.expires_at < now

\* The token stays in the table after it was redeemed.
TokenKept(table, record) == table

\* db.delete(verification_record)
TokenDeleted(table, record) == table \ {record}

\* GET /api/auth/verify-email?token=
verify_email(c, token) ==
  LET found == {r \in tokens : r.token = token} IN
  /\ api[c].pc # "read"
  /\ IF found = {}
       THEN /\ api' = [api EXCEPT ![c] = Reply("verify", 0, token, 404, <<>>)]
            /\ UNCHANGED <<users, tokens>>
       ELSE \E verification_record \in found :
              LET owners == {i \in 1..Len(users) :
                               users[i].id = verification_record.user_id}
              IN IF Expired(verification_record, clock)
                   THEN /\ tokens' = TokenDeleted(tokens, verification_record)
                        /\ api' = [api EXCEPT ![c] = Reply("verify", 0, token, 400, <<>>)]
                        /\ UNCHANGED users
                 ELSE IF owners = {}
                   THEN /\ api' = [api EXCEPT ![c] = Reply("verify", 0, token, 404, <<>>)]
                        /\ UNCHANGED <<users, tokens>>
                 ELSE \E i \in owners :
                        /\ users' = [users EXCEPT ![i].is_verified = TRUE,
                                                  ![i].updated_at = clock]
                        /\ tokens' = TokenDeleted(tokens, verification_record)
                        /\ api' = [api EXCEPT ![c] =
                             Reply("verify", users[i].id, token, 200, <<>>)]
  /\ UNCHANGED <<schema, pipelineVars, clock, prefs, digest>>

\* Time passes between two requests.
TimePasses ==
  /\ clock + Elapsed <= MaxMinutes
  /\ clock' = clock + Elapsed
  /\ UNCHANGED <<pipelineVars, accountVars>>

(***************************************************************************)
(* Preferences: api/preferences.py and schemas/preference.py.  A request   *)
(* body is a record of the fields it sets.  A handler is two steps, its    *)
(* SELECT and its commit, so that handlers of several server processes     *)
(* can interleave; `clock` counts the requests received.                   *)
(***************************************************************************)
PreferenceFields ==
  {"keywords", "excluded_keywords", "location", "salary_min", "salary_max",
   "remote_only", "job_types", "notification_frequency"}

\* The defaults of PreferenceBase.
PreferenceDefaults ==
  [keywords |-> None, excluded_keywords |-> None, location |-> None,
   salary_min |-> None, salary_max |-> None, remote_only |-> FALSE,
   job_types |-> None, notification_frequency |-> "daily"]

Frequencies == {"realtime", "daily", "weekly", "none"}

\* Bodies sent to POST /api/preferences; the last one has no keywords.
PostBodies ==
  {[keywords |-> Some(<<"python">>), location |-> Some("Berlin"),
    salary_min |-> Some(50)],
   [keywords |-> Some(<<"go">>), remote_only |-> TRUE,
    notification_frequency |-> "weekly"],
   [location |-> Some("Munich")]}

\* Bodies sent to PATCH /api/preferences; the last one has an empty keyword
\* list.
PatchBodies ==
  {[salary_min |-> Some(60)],
   [keywords |-> None, location |-> None],
   [salary_max |-> Some(40), notification_frequency |-> "none"],
   [keywords |-> Some(<<>>)]}

\* Values sent to PATCH /api/preferences/email.
FrequencyBodies ==
  {[notification_frequency |-> f] : f \in Frequencies \cup {"hourly"}}

Has(body, field) == field \in DOMAIN body

\* The validators of PreferenceBase on the fields the body sets.
ValidBase(body) ==
  /\ DOMAIN body \subseteq PreferenceFields
  /\ Has(body, "keywords") =>
        (body.keywords # None => Len(body.keywords[1]) > 0)
  /\ Has(body, "salary_min") => (body.salary_min # None => body.salary_min[1] >= 0)
  /\ Has(body, "salary_max") => (body.salary_max # None => body.salary_max[1] >= 0)
  /\ Has(body, "notification_frequency") =>
        body.notification_frequency \in Frequencies

\* PreferenceCreate: keywords are required, and salary_max is checked against
\* salary_min.
ValidCreate(body) ==
  /\ ValidBase(body)
  /\ Has(body, "keywords") /\ body.keywords # None
  /\ (Has(body, "salary_max") /\ Has(body, "salary_min")) =>
        ((body.salary_max # None /\ body.salary_min # None) =>
            body.salary_max[1] >= body.salary_min[1])

\* PreferenceUpdate
ValidUpdate(body) == ValidBase(body)

\* EmailFrequencyUpdate
ValidFrequency(body) == body.notification_frequency \in Frequencies

\* Every field of the schema: the body's value, or the default.
AllFields(preference_data) ==
  [f \in PreferenceFields |->
     IF Has(preference_data, f) THEN preference_data[f] ELSE PreferenceDefaults[f]]

\* preference_data.model_dump()
model_dump(preference_data) == AllFields(preference_data)

\* A dump that fills the fields the body leaves out.
DumpWithDefaults(preference_data) == AllFields(preference_data)

\* preference_data.model_dump(exclude_unset=True)
model_dump_exclude_unset(preference_data) == preference_data

\* UserPreference(user_id=current_user.id, **data)
PreferenceRow(id, user_id, data) ==
  [f \in PreferenceFields \cup {"id", "user_id"} |->
     IF f = "id" THEN id ELSE IF f = "user_id" THEN user_id ELSE data[f]]

\* select(UserPreference).where(UserPreference.user_id == user_id)
PreferencesOf(table, user_id) ==
  {i \in 1..Len(table) : table[i].user_id = user_id}

\* The row with that primary key, where it still exists.
RowsWithId(table, id) == {i \in 1..Len(table) : table[i].id = id}

\* `for key, value in data.items(): setattr(preference, key, value)`
Assigned(preference, data) ==
  [f \in DOMAIN preference |-> IF Has(data, f) THEN data[f] ELSE preference[f]]

\* The UPDATE of the flush: the columns whose value differs from the loaded
\* one are written to the stored row.
Flushed(stored, loaded, object) ==
  [f \in DOMAIN stored |-> IF object[f] # loaded[f] THEN object[f] ELSE stored[f]]

\* A DELETE that removes nothing.
Untouched(table, i) == table

\* The table without the row at position i.
Without(table, i) ==
  [k \in 1..(Len(table) - 1) |-> IF k < i THEN table[k] ELSE table[k + 1]]

\* A request whose SELECT has run and whose commit is still to come.
InFlight(op, user, body, loaded, object) ==
  [op |-> op, pc |-> "read", user |-> user, arg |-> <<body>>, seen |-> loaded,
   status |-> 0, out |-> object]

\* A request arrives at a client that is not waiting for a reply.
Arrives(c) ==
  /\ api[c].pc # "read"
  /\ clock' = clock + 1

\* GET /api/preferences
get_preferences(c, user) ==
  LET found == PreferencesOf(prefs, user) IN
  /\ Arrives(c)
  /\ IF found = {}
       THEN api' = [api EXCEPT ![c] = Reply("get", user, <<>>, 404, <<>>)]
     ELSE IF Cardinality(found) > 1
       THEN api' = [api EXCEPT ![c] = Reply("get", user, <<>>, 500, <<>>)]
     ELSE \E i \in found :
            api' = [api EXCEPT ![c] = Reply("get", user, <<>>, 200, <<prefs[i]>>)]
  /\ UNCHANGED <<schema, pipelineVars, users, tokens, prefs, digest>>

\* The first step of a writing handler: validation of the body, the SELECT,
\* and the 404 when there is nothing to change.
Selects(c, user, op, body, valid, creates) ==
  LET found == PreferencesOf(prefs, user) IN
  /\ Arrives(c)
  /\ IF ~valid
       THEN api' = [api EXCEPT ![c] = Reply(op, user, body, 422, <<>>)]
     ELSE IF Cardinality(found) > 1
       THEN api' = [api EXCEPT ![c] = Reply(op, user, body, 500, <<>>)]
     ELSE IF found = {}
       THEN IF creates
            THEN api' = [api EXCEPT ![c] =
                   InFlight(op, user, body, <<>>,
                            <<PreferenceRow(clock', user, model_dump(body))>>)]
            ELSE api' = [api EXCEPT ![c] = Reply(op, user, body, 404, <<>>)]
     ELSE \E i \in found :
            api' = [api EXCEPT ![c] =
              InFlight(op, user, body, <<prefs[i]>>,
                       <<Assigned(prefs[i], model_dump_exclude_unset(body))>>)]
  /\ UNCHANGED <<schema, pipelineVars, users, tokens, prefs, digest>>

\* POST /api/preferences, up to its SELECT
create_or_update_preferences(c, user, preference_data) ==
  Selects(c, user, "post", preference_data, ValidCreate(preference_data), TRUE)

\* PATCH /api/preferences, up to its SELECT
partial_update_preferences(c, user, preference_data) ==
  Selects(c, user, "patch", preference_data, ValidUpdate(preference_data), FALSE)

\* PATCH /api/preferences/email, up to its SELECT
update_email_frequency(c, user, frequency_data) ==
  Selects(c, user, "email", frequency_data, ValidFrequency(frequency_data), FALSE)

\* DELETE /api/preferences, up to its SELECT
delete_preferences(c, user) ==
  Selects(c, user, "delete", <<>>, TRUE, FALSE)

\* user_preferences.user_id carries no unique constraint.
AnyNumberOfRows(table, user_id) == TRUE

\* The unique constraint on user_preferences.user_id admits a row for user_id.
UserIdUnique(table, user_id) == PreferencesOf(table, user_id) = {}

\* db.add(new_preference); db.commit(); db.refresh(new_preference)
InsertCommit(c) ==
  LET r == api[c]
      new_preference == r.out[1]
  IN /\ r.pc = "read" /\ r.op = "post" /\ r.seen = <<>>
     /\ IF UserIdUnique(prefs, r.user)
          THEN /\ prefs' = Append(prefs, new_preference)
               /\ api' = [api EXCEPT ![c] =
                    Reply("post", r.user, r.arg[1], 201, <<new_preference>>)]
          ELSE /\ api' = [api EXCEPT ![c] = Reply("post", r.user, r.arg[1], 500, <<>>)]
               /\ UNCHANGED prefs
     /\ UNCHANGED <<schema, pipelineVars, clock, users, tokens, digest>>

\* The status a handler answers with when it succeeds.
SuccessStatus(op) == IF op = "post" THEN 201 ELSE 200

\* db.commit(); db.refresh(preference) of the handlers that change a loaded
\* row.  A row that is gone makes the UPDATE, or else the refresh, raise.
UpdateCommit(c) ==
  LET r == api[c]
      loaded == r.seen[1]
      object == r.out[1]
      at == RowsWithId(prefs, loaded.id)
  IN /\ r.pc = "read" /\ r.op \in {"post", "patch", "email"} /\ r.seen # <<>>
     /\ IF at = {}
          THEN /\ api' = [api EXCEPT ![c] = Reply(r.op, r.user, r.arg[1], 500, <<>>)]
               /\ UNCHANGED prefs
          ELSE \E i \in at :
                 LET refreshed == Flushed(prefs[i], loaded, object) IN
                 /\ prefs' = [prefs EXCEPT ![i] = refreshed]
                 /\ api' = [api EXCEPT ![c] =
                      Reply(r.op, r.user, r.arg[1], SuccessStatus(r.op), <<refreshed>>)]
     /\ UNCHANGED <<schema, pipelineVars, clock, users, tokens, digest>>

\* db.delete(preference); db.commit().  A row that is gone already only
\* draws a warning.
DeleteCommit(c) ==
  LET r == api[c]
      at == RowsWithId(prefs, r.seen[1].id)
  IN /\ r.pc = "read" /\ r.op = "delete"
     /\ prefs' = IF at = {} THEN prefs ELSE Without(prefs, CHOOSE i \in at : TRUE)
     /\ api' = [api EXCEPT ![c] = Reply("delete", r.user, <<>>, 204, <<>>)]
     /\ UNCHANGED <<schema, pipelineVars, clock, users, tokens, digest>>

(***************************************************************************)
(* utils/matching.py.  Scores are in thousandths (round(score, 3) * 1000), *)
(* times in minutes.                                                       *)
(***************************************************************************)
\* `sub in text` for two strings.
Contains(text, sub) ==
  \E i \in 0..(Len(text) - Len(sub)) : SubSeq(text, i + 1, i + Len(sub)) = sub

\* The characters of an Optional description; the filler is a character that
\* no keyword has.
DescChars(o) ==
  IF o = None THEN <<>> ELSE o[1].text \o [k \in 1..o[1].pad |-> "."]

\* f"{job.title or ''} {job.description or ''}".lower()
CombinedText(job) == Lower(job.title \o <<" ">> \o DescChars(job.description))

\* An Optional list that is neither None nor empty.
TruthyList(o) == o # None /\ o[1] # <<>>

\* round(a / b, 3) in thousandths; no quotient of the model lies halfway.
Round3(a, b) == (2000 * a + b) \div (2 * b)

Min(a, b) == IF a <= b THEN a ELSE b

\* Excluded keywords that exclude nothing.
NothingExcluded(job, preference) == FALSE

\* The job's title or description holds one of the excluded keywords.
HasExcluded(job, preference) ==
  /\ TruthyList(preference.excluded_keywords)
  /\ \E k \in 1..Len(preference.excluded_keywords[1]) :
       Contains(CombinedText(job), Lower(preference.excluded_keywords[1][k]))

score_keywords(job, preference) ==
  IF ~TruthyList(preference.keywords) THEN 1000
  ELSE IF HasExcluded(job, preference) THEN 0
  ELSE LET keywords == preference.keywords[1]
           title_text == Lower(job.title)
           desc_text == Lower(DescChars(job.description))
           title_matches == Cardinality({k \in 1..Len(keywords) :
                                           Contains(title_text, Lower(keywords[k]))})
           desc_matches == Cardinality({k \in 1..Len(keywords) :
                                          Contains(desc_text, Lower(keywords[k]))})
           max_possible_score == Len(keywords) * 3
           actual_score == title_matches * 2 + desc_matches
       IN Min(Round3(actual_score, max_possible_score), 1000)

\* fuzz.ratio(a, b) > 85
RatioAbove(r, n) == r[1] > n * r[2]

\* job_location.split(','), each part stripped
RECURSIVE SplitParts(_, _)
SplitParts(s, part) ==
  IF s = <<>> THEN <<Strip(part)>>
  ELSE IF Head(s) = "," THEN <<Strip(part)>> \o SplitParts(Tail(s), <<>>)
  ELSE SplitParts(Tail(s), Append(part, Head(s)))

filter_location(job, preference) ==
  LET remote == <<"r", "e", "m", "o", "t", "e">>
      job_location == IF TruthyStr(job.location) THEN Lower(job.location[1]) ELSE <<>>
      pref_location == Lower(preference.location[1])
      parts == SplitParts(job_location, <<>>)
  IN IF ~TruthyStr(preference.location) /\ ~preference.remote_only THEN TRUE
     ELSE IF preference.remote_only
       THEN job.remote_work \/ (TruthyStr(job.location) /\ Contains(job_location, remote))
     ELSE \/ Contains(job_location, pref_location)
          \/ RatioAbove(FuzzRatio(pref_location, job_location), 85)
          \/ /\ Contains(job_location, <<",">>)
             /\ \E p \in 1..Len(parts) :
                  \/ Contains(parts[p], pref_location)
                  \/ RatioAbove(FuzzRatio(pref_location, parts[p]), 85)

filter_salary(job, preference) ==
  IF preference.salary_min = None /\ preference.salary_max = None THEN TRUE
  ELSE IF job.salary_min = None /\ job.salary_max = None THEN TRUE
  ELSE /\ preference.salary_min # None =>
            /\ ~(job.salary_max # None /\ job.salary_max[1] < preference.salary_min[1])
            /\ ~(job.salary_max = None /\ job.salary_min # None
                   /\ job.salary_min[1] < preference.salary_min[1])
       /\ preference.salary_max # None =>
            ~(job.salary_min # None /\ job.salary_min[1] > preference.salary_max[1])

filter_job_type(job, preference) ==
  IF ~TruthyList(preference.job_types) THEN TRUE
  ELSE IF ~TruthyStr(job.job_type) THEN TRUE
  ELSE \E k \in 1..Len(preference.job_types[1]) :
         Contains(Lower(job.job_type[1]), Lower(preference.job_types[1][k]))

MinutesPerDay == 1440

\* The bonuses of step 4.
Bonus(job, preference, now) ==
    (IF TruthyInt(job.salary_min) \/ TruthyInt(job.salary_max) THEN 100 ELSE 0)
  + (IF preference.remote_only /\ job.remote_work THEN 150 ELSE 0)
  + (IF job.posted_at # None /\ (now - job.posted_at[1]) \div MinutesPerDay <= 7
     THEN 100 ELSE 0)
  + (IF TruthyInt(job.quality_score) /\ job.quality_score[1] > 80 THEN 100 ELSE 0)

\* match_job: the relevance score and match_reasons["keyword_score"].
match_job(job, preference, now) ==
  IF \/ job.quality_score # None /\ job.quality_score[1] < QualityThreshold
     \/ ~filter_location(job, preference)
     \/ ~filter_salary(job, preference)
     \/ ~filter_job_type(job, preference)
  THEN [score |-> 0, keyword_score |-> 0]
  ELSE LET base_score == score_keywords(job, preference)
       IN [score |-> Min(base_score + Bonus(job, preference, now), 1000),
           keyword_score |-> base_score]

(***************************************************************************)
(* The digest jobs: scheduler/digest.py.  `digest` is the one job of a     *)
(* behaviour: the users it selected, an entry for every user it has        *)
(* processed, its two counters, its session and its summary line.          *)
(***************************************************************************)
\* The digest scheduler with no job running.
NoDigest ==
  [kind |-> "none", pc |-> "idle", selected |-> <<>>, done |-> <<>>,
   sent_count |-> 0, failed_count |-> 0, session_open |-> FALSE,
   session_broken |-> FALSE, summary |-> <<>>]

\* How many jobs match a user's preference: none, or some.
MatchCounts == {0, 1}

\* What can go wrong while one user is processed, before the email is sent.
Faults == {"none", "db", "other"}

\* A selection that takes every user.
EveryUser(user, table, frequency) == TRUE

\* select(User).join(UserPreference).where(notification_frequency ==
\* frequency, User.is_verified)
WantsDigest(user, table, frequency) ==
  /\ user.is_verified
  /\ \E i \in PreferencesOf(table, user.id) :
       table[i].notification_frequency = frequency

\* The ids of the selected users, in the order of the table.
SelectedUsers(frequency) ==
  LET ids == [i \in 1..Len(users) |-> users[i].id]
      Test(id) == WantsDigest(users[id], prefs, frequency)
  IN SelectSeq(ids, Test)

\* The start of a job: the session is opened and the users are selected.  A
\* failure of the SELECT ends the job with no summary.
DigestStart(frequency, fault) ==
  /\ digest.pc = "idle"
  /\ digest' =
       IF fault
         THEN [NoDigest EXCEPT !.kind = frequency, !.pc = "done"]
         ELSE [NoDigest EXCEPT !.kind = frequency, !.pc = "loop",
                               !.selected = SelectedUsers(frequency),
                               !.session_open = TRUE]
  /\ UNCHANGED <<schema, pipelineVars, clock, users, tokens, prefs, api>>

\* send_daily_digests, up to its loop
send_daily_digests == \E fault \in BOOLEAN : DigestStart("daily", fault)

\* send_weekly_digests, up to its loop
send_weekly_digests == \E fault \in BOOLEAN : DigestStart("weekly", fault)

\* `not preference or not preference.keywords`
NothingToMatch(table, user_id) ==
  \A i \in PreferencesOf(table, user_id) :
    table[i].keywords = None \/ table[i].keywords[1] = <<>>

\* A failure that leaves the counter as it was.
NotCounted(n) == n

\* failed_count += 1, sent_count += 1
Counted(n) == n + 1

\* What the job did with one user: whether the email service was called,
\* and the counter that was raised.
Entry(user, mailed, counted) ==
  [user |-> user, mailed |-> mailed, counted |-> counted]

\* One iteration of the loop.  `fault` is the exception raised before the
\* email is sent, `matched` the number of matches, `success` the answer of
\* EmailService.send_digest.  A statement that fails leaves the session's
\* transaction aborted, and every later query of the job fails as well.
DigestUser(fault, matched, success) ==
  LET user == digest.selected[Len(digest.done) + 1]
      raised == digest.session_broken \/ fault # "none"
  IN /\ digest.pc = "loop"
     /\ Len(digest.done) < Len(digest.selected)
     /\ IF raised
          THEN digest' = [digest EXCEPT
                 !.done = Append(@, Entry(user, FALSE, "failed")),
                 !.failed_count = Counted(@),
                 !.session_broken = @ \/ fault = "db"]
        ELSE IF NothingToMatch(prefs, user) \/ matched = 0
          THEN digest' = [digest EXCEPT
                 !.done = Append(@, Entry(user, FALSE, "none"))]
        ELSE IF success
          THEN digest' = [digest EXCEPT
                 !.done = Append(@, Entry(user, TRUE, "sent")),
                 !.sent_count = Counted(@)]
        ELSE digest' = [digest EXCEPT
                 !.done = Append(@, Entry(user, TRUE, "failed")),
                 !.failed_count = Counted(@)]
     /\ UNCHANGED <<schema, pipelineVars, clock, users, tokens, prefs, api>>

\* The summary line after the loop, and db.close().
DigestCompleted ==
  /\ digest.pc = "loop"
  /\ Len(digest.done) = Len(digest.selected)
  /\ digest' = [digest EXCEPT
       !.pc = "done",
       !.session_open = FALSE,
       !.summary = <<[total_users |-> Len(digest.selected),
                      sent |-> digest.sent_count,
                      failed |-> digest.failed_count]>>]
  /\ UNCHANGED <<schema, pipelineVars, clock, users, tokens, prefs, api>>

(***************************************************************************)
(* scheduler/digest.py: the jobs of one user's digest.                     *)
(***************************************************************************)
RelevanceThreshold == 300
RecentLimit == 100
WeeklyRecentLimit == 200
DailyLimit == 10
WeeklyLimit == 15

\* A stable sort, descending by the field `key` (list.sort(reverse=True),
\* ORDER BY ... DESC with the rows of equal key in the order of the table):
\* an element goes behind those of a greater key and the earlier ones of
\* its own key.
SortDesc(s) ==
  LET place == [k \in 1..Len(s) |->
                  1 + Cardinality({j \in 1..Len(s) :
                        \/ s[j].key > s[k].key
                        \/ s[j].key = s[k].key /\ j < k})]
  IN [p \in 1..Len(s) |-> s[CHOOSE k \in 1..Len(s) : place[k] = p]]

\* s[:n]
Take(s, n) == SubSeq(s, 1, Min(n, Len(s)))

\* A quality filter that lets the rows without a score pass.
ScoredOrUnscored(job) ==
  job.quality_score = None \/ job.quality_score[1] >= QualityThreshold

\* Job.quality_score >= 0.6, which no row without a score satisfies.
QualityAtLeast(job) ==
  job.quality_score # None /\ job.quality_score[1] >= QualityThreshold

\* select(Job).where(is_active, created_at >= threshold, quality_score >=
\* 0.6).order_by(created_at.desc()).limit(cap)
RecentJobs(table, now, days, cap) ==
  LET rows == SelectSeq(table, LAMBDA job :
                /\ job.is_active
                /\ job.created_at >= now - days * MinutesPerDay
                /\ QualityAtLeast(job))
  IN Take(SortDesc([k \in 1..Len(rows) |->
                      [key |-> rows[k].created_at, job |-> rows[k]]]), cap)

\* The matches of one preference among the recent jobs: those that score
\* at least 0.3, best first, at most `limit` of them.
TopMatches(recent, preference, now, limit) ==
  LET scored == [k \in 1..Len(recent) |->
                   [key |-> match_job(recent[k].job, preference, now).score,
                    job |-> recent[k].job.id]]
      matched_jobs == SelectSeq(scored, LAMBDA m : m.key >= RelevanceThreshold)
  IN Take(SortDesc(matched_jobs), limit)

\* get_matched_jobs_for_user(user, db, limit), and the same steps inside
\* send_weekly_digests with their own window and limits.
MatchedJobs(user, now, days, cap, limit) ==
  LET found == PreferencesOf(prefs, user) IN
  IF found = {} \/ NothingToMatch(prefs, user) THEN <<>>
  ELSE TopMatches(RecentJobs(jobs, now, days, cap),
                  prefs[CHOOSE i \in found : TRUE], now, limit)

get_matched_jobs_for_user(user, now, limit) ==
  MatchedJobs(user, now, 1, RecentLimit, limit)

\* The step of the daily loop that builds the digest of one user.
BuildDailyDigest(user) ==
  /\ digest.pc = "idle"
  /\ digest' = [NoDigest EXCEPT
       !.kind = "daily", !.pc = "matched", !.selected = <<user>>,
       !.done = get_matched_jobs_for_user(user, clock, DailyLimit)]
  /\ UNCHANGED <<schema, pipelineVars, clock, users, tokens, prefs, api>>

\* The step of the weekly loop that builds the digest of one user.
BuildWeeklyDigest(user) ==
  /\ digest.pc = "idle"
  /\ digest' = [NoDigest EXCEPT
       !.kind = "weekly", !.pc = "matched", !.selected = <<user>>,
       !.done = MatchedJobs(user, clock, 7, WeeklyRecentLimit, WeeklyLimit)]
  /\ UNCHANGED <<schema, pipelineVars, clock, users, tokens, prefs, api>>

(***************************************************************************)
(* Specifications                                                          *)
(***************************************************************************)
NoFetch == FetchStart(0, 0)

\* No account, no request and no digest job; no scraper at work.
AccountsAtRest ==
  /\ users = <<>>
  /\ tokens = {}
  /\ prefs = {}
  /\ api = [c \in Clients |-> NoRequest]
  /\ digest = NoDigest
  /\ schema = HeadSchema

PipelineAtRest ==
  /\ fetch = NoFetch
  /\ sources = [s \in SourceRows |-> SeededSource]
  /\ jobs = <<>>
  /\ logs = [s \in SourceRows |-> NoLogs]
  /\ worker = [w \in Workers |-> IdleWorker]
  /\ sessions = [w \in Workers |-> [t \in TaskNames |-> FALSE]]

\* The feeds the sites serve while tasks run side by side.
BriefFeeds == {<<>>, <<JobPlain>>}

\* A seeded row that the admin has disabled.
DisabledSource == [SeededSource EXCEPT !.is_active = FALSE]

Init ==
  /\ fetch = NoFetch
  /\ sources \in [SourceRows -> {SeededSource, DisabledSource}]
  /\ jobs \in InitialTables
  /\ logs = [s \in SourceRows |-> NoLogs]
  /\ worker = [w \in Workers |-> IdleWorker]
  /\ sessions = [w \in Workers |-> [t \in TaskNames |-> FALSE]]
  /\ clock = 0
  /\ AccountsAtRest

\* The steps of a run_scraper task on worker w: at most `limit` operations
\* are started, the task's argument is drawn from `names`, the feed from F,
\* and a database fault from B.
ScraperSteps(w, limit, names, F, B) ==
  \/ \E name \in names, raises \in BOOLEAN :
        clock < limit /\ StartRunScraper(w, name, raises)
  \/ \E content \in FetchResults, parse_raises \in B, feed \in F :
        RunPipeline(w, content, parse_raises, feed)
  \/ \E db_error \in B, log_raises \in B : BulkInsert(w, db_error, log_raises)
  \/ StatsCommit(w)
  \/ ErrorCommit(w)
  \/ AfterReturn(w)

\* Two worker processes take tasks side by side; the admin API toggles sources.
Next ==
  \/ \E w \in Workers : ScraperSteps(w, MaxTasks, TaskArgs, BriefFeeds, {FALSE})
  \/ \E w \in Workers : clock < MaxTasks /\ RunAllStart(w)
  \/ \E w \in Workers, raises \in BOOLEAN :
        (worker[w].queue = <<>> \/ clock < MaxTasks) /\ RunAllNext(w, raises)
  \/ \E w \in Workers : clock < MaxTasks /\ HealthCheck(w)
  \/ \E source_id \in SourceIds : clock < MaxTasks /\ enable_source(source_id)
  \/ \E source_id \in SourceIds : clock < MaxTasks /\ disable_source(source_id)

Spec == Init /\ [][Next]_vars

\* One worker process runs run_scraper tasks one after the other.
NextSeq ==
  ScraperSteps("w1", MaxRuns, {"RemoteOK", "Jobicy", "Unlisted"}, Feeds, BOOLEAN)

\* A job_sources row that earlier runs have used.
UsedSource ==
  [SeededSource EXCEPT !.last_scraped_at = Some(0), !.total_jobs_found = 1,
                       !.total_errors = 1, !.success_rate = Some(SuccessRate(1, 2))]

InitSeq ==
  /\ fetch = NoFetch
  /\ sources \in [SourceRows -> {SeededSource, UsedSource}]
  /\ sources["Himalayas"] = SeededSource
  /\ jobs \in InitialTables
  /\ logs = [s \in SourceRows |-> NoLogs]
  /\ worker = [w \in Workers |-> IdleWorker]
  /\ sessions = [w \in Workers |-> [t \in TaskNames |-> FALSE]]
  /\ clock = 0
  /\ AccountsAtRest

SpecSeq == InitSeq /\ [][NextSeq]_vars

(***************************************************************************)
(* One fetch(url) call, attempt by attempt.                                *)
(***************************************************************************)
InitFetch ==
  /\ fetch \in {FetchStart(max_retries, rate_limit_delay) :
                   max_retries \in 0..MaxRetries, rate_limit_delay \in 0..1}
  /\ sources = [s \in SourceRows |-> SeededSource]
  /\ jobs = <<>>
  /\ logs = [s \in SourceRows |-> NoLogs]
  /\ worker = [w \in Workers |-> IdleWorker]
  /\ sessions = [w \in Workers |-> [t \in TaskNames |-> FALSE]]
  /\ clock = 0
  /\ AccountsAtRest

\* The next iteration of the retry loop meets resp.
FetchStep(resp) ==
  /\ ~fetch.done
  /\ fetch' = FetchAttempt(fetch, resp)
  /\ UNCHANGED <<sources, jobs, logs, worker, sessions, clock>>
  /\ UNCHANGED accountVars

NextFetch == \E resp \in Responses : FetchStep(resp)

\* Every attempt ends: the client has a timeout (base.py line 82), and the
\* sleeps are finite.
SpecFetch == InitFetch /\ [][NextFetch]_vars /\ WF_vars(NextFetch)

(***************************************************************************)
(* The account endpoints, request by request.                              *)
(***************************************************************************)
InitAuth ==
  /\ PipelineAtRest
  /\ AccountsAtRest
  /\ clock = 0

\* The requests arrive one after the other; the client holds the last reply.
NextAuth ==
  \/ \E email \in Emails, password \in Passwords :
        register_user("c1", email, password)
  \/ \E email \in Emails, password \in Passwords :
        login_user("c1", email, password)
  \/ \E token \in TokenStrings : verify_email("c1", token)
  \/ TimePasses

SpecAuth == InitAuth /\ [][NextAuth]_vars

(***************************************************************************)
(* The preference endpoints.                                               *)
(***************************************************************************)
\* Requests received in one behaviour of one client.
MaxRequests == 4

\* Requests received in one behaviour of two clients side by side.
MaxRacing == 3

\* Two verified users whose access tokens the clients hold.
Members ==
  <<[UserRow(1, "ann@mail", hash_password("pw1"), 0) EXCEPT !.is_verified = TRUE],
    [UserRow(2, "bob@mail", hash_password("pw2"), 0) EXCEPT !.is_verified = TRUE]>>

InitPrefs ==
  /\ PipelineAtRest
  /\ clock = 0
  /\ users = Members
  /\ tokens = {}
  /\ prefs = <<>>
  /\ api = [c \in Clients |-> NoRequest]
  /\ digest = NoDigest
  /\ schema = HeadSchema

\* The requests of client c, for any of the users, while fewer than `limit`
\* requests were received.
PreferenceSteps(c, limit) ==
  \/ \E user \in 1..Len(users) : clock < limit /\ get_preferences(c, user)
  \/ \E user \in 1..Len(users), body \in PostBodies :
        clock < limit /\ create_or_update_preferences(c, user, body)
  \/ \E user \in 1..Len(users), body \in PatchBodies :
        clock < limit /\ partial_update_preferences(c, user, body)
  \/ \E user \in 1..Len(users), body \in FrequencyBodies :
        clock < limit /\ update_email_frequency(c, user, body)
  \/ \E user \in 1..Len(users) : clock < limit /\ delete_preferences(c, user)
  \/ InsertCommit(c)
  \/ UpdateCommit(c)
  \/ DeleteCommit(c)

\* Two server processes handle requests side by side.
NextPrefs == \E c \in Clients : PreferenceSteps(c, MaxRacing)

SpecPrefs == InitPrefs /\ [][NextPrefs]_vars

\* One request at a time.
NextPrefsSeq == PreferenceSteps("c1", MaxRequests)

SpecPrefsSeq == InitPrefs /\ [][NextPrefsSeq]_vars

(***************************************************************************)
(* One digest job, next to the requests of one client.                     *)
(***************************************************************************)
\* Requests received while the digest job runs.
MaxChanges == 1

\* Five users: ann and bob are verified and take the daily digest, cat takes
\* it and is not verified, dan is verified and takes the weekly one, eve is
\* verified and has set no preferences.
Subscribers ==
  <<[UserRow(1, "ann@mail", hash_password("pw1"), 0) EXCEPT !.is_verified = TRUE],
    [UserRow(2, "bob@mail", hash_password("pw2"), 0) EXCEPT !.is_verified = TRUE],
    UserRow(3, "cat@mail", hash_password("pw1"), 0),
    [UserRow(4, "dan@mail", hash_password("pw2"), 0) EXCEPT !.is_verified = TRUE],
    [UserRow(5, "eve@mail", hash_password("pw1"), 0) EXCEPT !.is_verified = TRUE]>>

\* The body of the POST each of the first four has sent.
Subscriptions ==
  [i \in 1..(Len(Subscribers) - 1) |->
     IF i <= 3
       THEN [keywords |-> Some(<<"python">>), location |-> Some("Berlin"),
             salary_min |-> Some(50)]
       ELSE [keywords |-> Some(<<"go">>), remote_only |-> TRUE,
             notification_frequency |-> "weekly"]]

InitDigest ==
  /\ PipelineAtRest
  /\ clock = Len(Subscriptions)
  /\ users = Subscribers
  /\ tokens = {}
  /\ prefs = [i \in 1..Len(Subscriptions) |->
                PreferenceRow(i, i, model_dump(Subscriptions[i]))]
  /\ api = [c \in Clients |-> NoRequest]
  /\ digest = NoDigest
  /\ schema = HeadSchema

NextDigest ==
  \/ send_daily_digests
  \/ send_weekly_digests
  \/ \E fault \in Faults, matched \in MatchCounts, success \in BOOLEAN :
        DigestUser(fault, matched, success)
  \/ DigestCompleted
  \/ PreferenceSteps("c1", Len(Subscriptions) + MaxChanges)

SpecDigest == InitDigest /\ [][NextDigest]_vars

(***************************************************************************)
(* The digest of one user, for jobs tables and preferences of many kinds.  *)
(***************************************************************************)
\* The time of the digest job, in minutes.
DigestTime == 14 * MinutesPerDay

KwGo == <<"g", "o">>
KwBackend == <<"B", "a", "c", "k", "e", "n", "d">>
KwData == <<"d", "a", "t", "a">>

\* A posting with the title of JobPlain and the metadata of JobRich.
JobGoRich == [JobRich EXCEPT !.title = TitleBackend, !.url = "u4"]

\* Rows of the jobs table: a plain match, a match without a quality score, a
\* rich match, another posting made exactly a day ago, a low-quality row, an
\* inactive row, and a row of the day before yesterday.
MatchPool ==
  <<JobRow(JobPlain, 1, Some(60), "RemoteOK", DigestTime - 60),
    JobRow(JobTwin, 2, None, "RemoteOK", DigestTime - 120),
    JobRow(JobGoRich, 3, Some(90), "Himalayas", DigestTime - 180),
    JobRow(JobOther, 4, Some(80), "Himalayas", DigestTime - MinutesPerDay),
    JobRow([JobPlain EXCEPT !.url = "u5", !.company = None], 5, Some(30),
           "RemoteOK", DigestTime - 30),
    [JobRow([JobPlain EXCEPT !.url = "u6"], 6, Some(60), "RemoteOK", DigestTime - 90)
       EXCEPT !.is_active = FALSE],
    JobRow([JobGoRich EXCEPT !.url = "u7"], 7, Some(90), "RemoteOK",
           DigestTime - 2 * MinutesPerDay)>>

\* More matches than a digest holds: every third one is a rich posting.
LongTable ==
  [i \in 1..(DailyLimit + 2) |->
     JobRow(IF i % 3 = 0 THEN JobGoRich ELSE JobPlain, i,
            IF i % 3 = 0 THEN Some(90) ELSE Some(60), "RemoteOK", DigestTime - i)]

\* More recent rows than the query loads; the oldest one is the best match.
FullTable ==
  [i \in 1..(RecentLimit + 1) |->
     JobRow(IF i > RecentLimit THEN JobGoRich ELSE JobPlain, i,
            IF i > RecentLimit THEN Some(90) ELSE Some(60), "RemoteOK",
            DigestTime - i)]

MatchTables ==
  {SelectSeq(MatchPool, LAMBDA job : job.id \in S) : S \in SUBSET (1..Len(MatchPool))}
    \cup {LongTable, FullTable}

MatchPreferences ==
  {[keywords |-> Some(<<KwGo>>)],
   [keywords |-> Some(<<KwGo, KwBackend>>), remote_only |-> TRUE],
   [keywords |-> Some(<<KwGo>>), excluded_keywords |-> Some(<<KwBackend>>),
    remote_only |-> TRUE],
   [keywords |-> Some(<<KwData>>), salary_min |-> Some(50),
    location |-> Some(<<"r", "e", "m", "o", "t", "e">>)]}

InitMatch ==
  /\ fetch = NoFetch
  /\ sources = [s \in SourceRows |-> SeededSource]
  /\ jobs \in MatchTables
  /\ logs = [s \in SourceRows |-> NoLogs]
  /\ worker = [w \in Workers |-> IdleWorker]
  /\ sessions = [w \in Workers |-> [t \in TaskNames |-> FALSE]]
  /\ clock = DigestTime
  /\ users = Members
  /\ tokens = {}
  /\ \E data \in MatchPreferences : prefs = <<PreferenceRow(1, 1, model_dump(data))>>
  /\ api = [c \in Clients |-> NoRequest]
  /\ digest = NoDigest
  /\ schema = HeadSchema

NextMatch ==
  \/ \E user \in 1..Len(users) : BuildDailyDigest(user)
  \/ \E user \in 1..Len(users) : BuildWeeklyDigest(user)

SpecMatch == InitMatch /\ [][NextMatch]_vars

(***************************************************************************)
(* Merges into one persisted job.                                          *)
(***************************************************************************)
\* Merges in one behaviour.
MaxMerges == 3

\* A posting that pays from nothing up, and names an empty location.
JobFree ==
  [JobPlain EXCEPT !.url = "u8", !.salary_min = Some(0), !.salary_max = Some(90),
                   !.location = Some(<<>>)]

MergePool == JobPool \cup {JobFree}

\* The jobs table holds one row, saved from a candidate that passed the
\* quality filter.
InitMerge ==
  /\ fetch = NoFetch
  /\ sources = [s \in SourceRows |-> SeededSource]
  /\ \E job_data \in MergePool :
       /\ ~LowQuality(quality_score(job_data))
       /\ jobs = <<JobRow(job_data, 1, Some(quality_score(job_data)), "RemoteOK", 0)>>
  /\ logs = [s \in SourceRows |-> NoLogs]
  /\ worker = [w \in Workers |-> IdleWorker]
  /\ sessions = [w \in Workers |-> [t \in TaskNames |-> FALSE]]
  /\ clock = 0
  /\ AccountsAtRest

\* One call of merge_duplicate_metadata, for the row or for an id that no
\* row has.
Merge(existing_job_id, new_job_data) ==
  /\ clock < MaxMerges
  /\ clock' = clock + 1
  /\ jobs' = merge_duplicate_metadata(jobs, existing_job_id, new_job_data, clock')
  /\ UNCHANGED <<fetch, sources, logs, worker, sessions, accountVars>>

NextMerge ==
  \E existing_job_id \in 1..2, new_job_data \in MergePool :
     Merge(existing_job_id, new_job_data)

SpecMerge == InitMerge /\ [][NextMerge]_vars

(***************************************************************************)
(* The deduplication of one parsed batch.                                  *)
(***************************************************************************)
\* Candidates in one batch.
MaxBatch == 3

Batches == UNION {[1..n -> JobPool] : n \in 0..MaxBatch}

InitDedup == PipelineAtRest /\ AccountsAtRest /\ clock = 0

\* `jobs = cross_source_dedup(jobs)` at the start of save(): the worker
\* holds the parsed batch and what is left of it.
DedupBatch(w, parsed) ==
  /\ worker[w].pc = "idle"
  /\ worker' = [worker EXCEPT ![w].pc = "save",
        ![w].save = [parsed |-> parsed, unique_jobs |-> cross_source_dedup(parsed)]]
  /\ UNCHANGED <<fetch, sources, jobs, logs, sessions, clock, accountVars>>

NextDedup == \E parsed \in Batches : DedupBatch("w1", parsed)

SpecDedup == InitDedup /\ [][NextDedup]_vars

(***************************************************************************)
(* The admin endpoints that enable and disable a source, called by one     *)
(* client on sources with any history of runs.                             *)
(***************************************************************************)
\* Rows as runs leave them: never scraped, scraped with two jobs saved, and
\* one failed run.
SourceHistories ==
  {SeededSource,
   UpdatedStats(SeededSource, SeededSource, 2, 1),
   CountedError(SeededSource, SeededSource)}

\* POST /admin/source/{source_id}/enable and /disable: 404 when the registry
\* reports failure.
AdminSetActive(c, op, source_id, value) ==
  LET done == SetIsActive(sources, source_id, value)
  IN /\ sources' = done.sources
     /\ api' = [api EXCEPT ![c] =
          Reply(op, 0, source_id, IF done.ok THEN 200 ELSE 404, <<>>)]
     /\ UNCHANGED <<fetch, jobs, logs, worker, sessions, clock, users, tokens,
                    prefs, digest, schema>>

InitAdmin ==
  /\ fetch = NoFetch
  /\ sources \in [SourceRows -> SourceHistories]
  /\ jobs = <<>>
  /\ logs = [s \in SourceRows |-> NoLogs]
  /\ worker = [w \in Workers |-> IdleWorker]
  /\ sessions = [w \in Workers |-> [t \in TaskNames |-> FALSE]]
  /\ AccountsAtRest
  /\ clock = 0

NextAdmin ==
  \/ \E source_id \in SourceIds : AdminSetActive("c1", "enable", source_id, TRUE)
  \/ \E source_id \in SourceIds : AdminSetActive("c1", "disable", source_id, FALSE)

SpecAdmin == InitAdmin /\ [][NextAdmin]_vars

(***************************************************************************)
(* Migration commands run one after the other on a database at the first   *)
(* revision.                                                               *)
(***************************************************************************)
InitMigrate ==
  /\ PipelineAtRest
  /\ users = <<>>
  /\ tokens = {}
  /\ prefs = {}
  /\ api = [c \in Clients |-> NoRequest]
  /\ digest = NoDigest
  /\ clock = 0
  /\ schema = SchemaAt(1, BaselineObjects)

NextMigrate ==
  \/ \E transactional \in BOOLEAN : upgrade(transactional)
  \/ \E transactional \in BOOLEAN : downgrade(transactional)

SpecMigrate == InitMigrate /\ [][NextMigrate]_vars

(***************************************************************************)
(* core/security.py: the bearer credential of the protected endpoints.     *)
(* A credential is the claims of a token and the key that signed it; two   *)
(* clients send credentials while time passes (minutes).                   *)
(***************************************************************************)
Signed(claims, key) == [claims |-> claims, key |-> key]

JwtSecret == "jwt_secret"

\* jwt.decode: the payload of a token signed with the secret whose `exp` has
\* not passed, None otherwise.
decode_token(token, now) ==
  IF token.key = JwtSecret /\ token.claims.exp > now THEN Some(token.claims) ELSE None

\* The user of the token's email, or None where the handler answers 401.
get_current_user(token, table, now) ==
  LET payload == decode_token(token, now)
  IN IF payload = None THEN None
     ELSE LET found == UsersWithEmail(table, payload[1].email)
          IN IF found = {} THEN None
             ELSE Some(table[CHOOSE i \in found : TRUE])

\* What login returned to the two members at time 0, an access token signed
\* with another key, and the tokens of an account that no longer exists.
Bearers ==
  LET TokenData(u) == [sub |-> u.id, email |-> u.email]
      gone == [sub |-> 3, email |-> "zed@mail"]
  IN {Signed(create_access_token(TokenData(Members[k]), 0), JwtSecret) : k \in 1..Len(Members)}
     \cup {Signed(create_refresh_token(TokenData(Members[k]), 0), JwtSecret) :
              k \in 1..Len(Members)}
     \cup {Signed(create_access_token(TokenData(Members[1]), 0), "other_key"),
           Signed(create_access_token(gone, 0), JwtSecret),
           Signed(create_refresh_token(gone, 0), JwtSecret)}

\* GET /api/preferences with a bearer credential: get_current_user, then
\* the handler.
BearerGetPreferences(c, token) ==
  LET current_user == get_current_user(token, users, clock)
  IN /\ IF current_user = None
          THEN api' = [api EXCEPT ![c] = Reply("get", 0, token, 401, <<>>)]
          ELSE LET user == current_user[1].id
                   found == PreferencesOf(prefs, user)
               IN IF found = {}
                    THEN api' = [api EXCEPT ![c] = Reply("get", user, token, 404, <<>>)]
                  ELSE IF Cardinality(found) > 1
                    THEN api' = [api EXCEPT ![c] = Reply("get", user, token, 500, <<>>)]
                  ELSE \E i \in found :
                         api' = [api EXCEPT ![c] =
                                   Reply("get", user, token, 200, <<prefs[i]>>)]
     /\ UNCHANGED <<schema, pipelineVars, clock, users, tokens, prefs, digest>>

\* The first member has stored preferences, the second has none.
InitBearer ==
  /\ PipelineAtRest
  /\ clock = 0
  /\ users = Members
  /\ tokens = {}
  /\ prefs = <<PreferenceRow(1, 1, model_dump(
                  [keywords |-> Some(<<"python">>), location |-> Some("Berlin"),
                   salary_min |-> Some(50)]))>>
  /\ api = [c \in Clients |-> NoRequest]
  /\ digest = NoDigest
  /\ schema = HeadSchema

NextBearer ==
  \/ \E c \in Clients, token \in Bearers : BearerGetPreferences(c, token)
  \/ TimePasses

SpecBearer == InitBearer /\ [][NextBearer]_vars

(***************************************************************************)
(* C8: fetch retries                                                       *)
(***************************************************************************)
Succeeded(resp) == resp.kind = "response" /\ resp.status \in 200..299

Retried(resp) ==
  \/ resp.kind = "request_error"
  \/ resp.kind = "response" /\ (resp.status = 429 \/ resp.status \in 500..599)

RefusedAtOnce(resp) ==
  resp.kind = "response" /\ resp.status \in 400..499 /\ resp.status # 429

\* The sleeps the attempts seen[i..] call for: 2^attempt after a 429, a 5xx
\* or a network error (attempt counted from 0), the rate-limit delay after a
\* success.
RECURSIVE BackoffsFrom(_, _, _)
BackoffsFrom(seen, i, delay) ==
  IF i > Len(seen) THEN <<>>
  ELSE (IF Retried(seen[i]) THEN <<2 ^ (i - 1)>>
        ELSE IF Succeeded(seen[i]) /\ delay > 0 THEN <<delay>>
        ELSE <<>>) \o BackoffsFrom(seen, i + 1, delay)

FetchWellBehaved ==
  LET n == Len(fetch.seen) IN
  /\ n <= fetch.max_retries
  /\ \A i \in 1..(n - 1) : ~Succeeded(fetch.seen[i]) /\ ~RefusedAtOnce(fetch.seen[i])
  /\ fetch.sleeps = BackoffsFrom(fetch.seen, 1, fetch.rate_limit_delay)
  /\ fetch.done <=> \/ n = fetch.max_retries
                    \/ n > 0 /\ (Succeeded(fetch.seen[n]) \/ RefusedAtOnce(fetch.seen[n]))
  /\ fetch.result = IF n > 0 /\ Succeeded(fetch.seen[n])
                    THEN Some(fetch.seen[n].body) ELSE None

\* C8: fetch(url) ends after at most max_retries attempts; it returns the body
\* of the first successful response; after a 429, a 5xx or a network error it
\* sleeps 2^attempt seconds and goes on while attempts remain; after another
\* 4xx it stops at once; when no attempt succeeds it returns None.
C8_FetchRetries == []FetchWellBehaved /\ <>(fetch.done)

\* A 429, then a network error, then a success on the third and last attempt.
C8_Witness ==
  /\ fetch.done
  /\ fetch.max_retries = 3
  /\ Len(fetch.seen) = 3
  /\ fetch.seen[1].kind = "response" /\ fetch.seen[1].status = 429
  /\ fetch.seen[2].kind = "request_error"
  /\ fetch.seen[3].kind = "response" /\ fetch.seen[3].status = 200
  /\ fetch.result = Some("feed")
  /\ fetch.sleeps = <<1, 2, 1>>

(***************************************************************************)
(* C1: failed runs                                                         *)
(***************************************************************************)
\* The run() that worker w finished last.
LastRun(w) == worker[w].last

RateIsCurrent(row) ==
  /\ row.success_rate # None
  /\ row.success_rate[1][1] * (row.total_jobs_found + row.total_errors)
       = 100 * row.total_jobs_found * row.success_rate[1][2]

\* What the claim promises of the run r.
StatsUpdated(r) ==
  /\ r.post.row.last_scraped_at = Some(r.now)
  /\ r.post.row.total_jobs_found = r.pre.row.total_jobs_found + r.ret
  /\ r.post.row.total_errors = r.pre.row.total_errors
  /\ RateIsCurrent(r.post.row)

BelowThreshold(job_data) == quality_score(job_data) < QualityThreshold

PassesFilter(d) == ~BelowThreshold(d.job)

\* The candidates of the decisions ds that pass the filter, in order.
PassingJobs(ds) ==
  LET kept == SelectSeq(ds, PassesFilter) IN [i \in 1..Len(kept) |-> kept[i].job]

\* What the first pass of save() on worker w has decided.
FilterRespected(w) ==
  LET sv == worker[w].save
      ds == sv.decisions
      low == {i \in 1..Len(ds) : BelowThreshold(ds[i].job)}
  IN /\ \A i \in low : ds[i].verdict = "low_quality" /\ ds[i].existing_id = 0
     /\ sv.error_count = Cardinality(low)
                           + Cardinality({i \in 1..Len(ds) : ds[i].verdict = "error"})
     /\ sv.duplicate_count =
           Cardinality({i \in 1..Len(ds) : ds[i].verdict = "duplicate"})
     /\ Len(sv.jobs_to_insert) =
           Cardinality({i \in 1..Len(ds) : ds[i].verdict = "queued"})
     /\ \A i \in 1..Len(sv.jobs_to_insert) :
           /\ sv.jobs_to_insert[i].quality_score # None
           /\ sv.jobs_to_insert[i].quality_score[1] >= QualityThreshold

\* Every stored row has no score (it predates the column) or one >= 0.6.
StoredScoresPass ==
  \A k \in 1..Len(jobs) :
    jobs[k].quality_score = None \/ jobs[k].quality_score[1] >= QualityThreshold

\* The first pass of save() leaves the table as if the candidates below the
\* threshold had not been in the batch.
LowQualityLeavesNoTrace ==
  \A w \in Workers :
    (worker[w].pc = "fetch" /\ worker'[w].pc = "insert") =>
      jobs' \in {st.table :
                  st \in SaveLoop(SaveStart(jobs),
                                  PassingJobs(worker'[w].save.decisions),
                                  worker[w].src, clock)}

UrlMatchIsDuplicate ==
  \A c \in JobPool : \A k \in 1..Len(jobs) :
    jobs[k].url = c.url =>
      is_duplicate(jobs, c, FuzzyThreshold, DaysLookback, MinLength)
        = {[raised |-> FALSE, is_dup |-> TRUE, id |-> jobs[k].id]}

\* The stored row already holds everything the candidate could add to it.
MergedInto(row, job_data) == MergeRow(row, job_data, clock) = row

\* After the first pass of save() on worker w, decision d for a candidate with
\* a stored URL: a duplicate of that row, merged into it, not queued.
HandledAsDuplicate(w, d) ==
  \A k \in 1..Len(jobs) :
    jobs[k].url = d.job.url =>
      /\ d.verdict = "duplicate"
      /\ d.existing_id = jobs[k].id
      /\ MergedInto(jobs[k], d.job)
      /\ \A i \in 1..Len(worker[w].save.jobs_to_insert) :
            worker[w].save.jobs_to_insert[i].url # d.job.url

\* C5 as stated: for every candidate whose URL is that of a stored job,
\* is_duplicate returns (True, that job's id), and save() merges the
\* candidate into that job and inserts no row for it.
C5_EveryUrlMatchMerged ==
  /\ UrlMatchIsDuplicate
  /\ \A w \in Workers :
        worker[w].pc = "insert" =>
          \A i \in 1..Len(worker[w].save.decisions) :
            HandledAsDuplicate(w, worker[w].save.decisions[i])

\* C5, amended: is_duplicate as stated; save() merges the candidate and
\* inserts no row for it when the candidate's quality score is at least 0.6
\* and the batch deduplication has kept it; otherwise save() neither merges
\* nor inserts it.
C5_CheckedUrlMatchMerged ==
  /\ UrlMatchIsDuplicate
  /\ \A w \in Workers :
        worker[w].pc = "insert" =>
          \A i \in 1..Len(worker[w].save.decisions) :
            LET d == worker[w].save.decisions[i] IN
              IF BelowThreshold(d.job)
              THEN d.verdict = "low_quality"
              ELSE HandledAsDuplicate(w, d)

\* JobRich arrives at the URL of the stored legacy row, which is inactive,
\* old, and differs in title and company: it is merged, not queued.
C5_Witness ==
  /\ worker["w1"].pc = "insert"
  /\ Len(jobs) = 1
  /\ ~jobs[1].is_active
  /\ jobs[1].age_days > DaysLookback
  /\ Len(worker["w1"].save.decisions) = 1
  /\ worker["w1"].save.decisions[1].job = JobRich
  /\ worker["w1"].save.decisions[1].verdict = "duplicate"
  /\ worker["w1"].save.decisions[1].existing_id = 1
  /\ jobs[1].salary_min = JobRich.salary_min
  /\ jobs[1].remote_work
  /\ worker["w1"].save.jobs_to_insert = <<>>

(***************************************************************************)
(* C6: a failed bulk insert                                                *)
(***************************************************************************)
\* save() on worker w has queued rows and its bulk insert has stored none.
InsertFailed(w) ==
  /\ worker[w].pc = "stats"
  /\ worker[w].save.jobs_to_insert # <<>>
  /\ worker[w].inserted = 0

\* C6: when the bulk insert of save() fails, none of the queued jobs is
\* stored, save() reports 0 saved, and the summary event, which is still
\* written, counts every queued job as an error.
C6_FailedInsertRolledBack ==
  \A w \in Workers :
    InsertFailed(w) =>
      LET sv == worker[w].save
          ds == sv.decisions
          before == Cardinality({i \in 1..Len(ds) :
                                   ds[i].verdict \in {"low_quality", "error"}})
      IN /\ \A i \in 1..Len(sv.jobs_to_insert) : \A k \in 1..Len(jobs) :
               jobs[k].url # sv.jobs_to_insert[i].url
         /\ \A k \in 1..Len(jobs) : jobs[k].id = k
         /\ worker[w].saved_count = 0
         /\ worker[w].summary =
               Some([saved |-> 0, duplicates |-> sv.duplicate_count,
                     errors |-> before + Len(sv.jobs_to_insert),
                     total_processed |-> Len(ds)])
         /\ logs[worker[w].src]["info"] = worker[w].pre.logs["info"] + 1
         /\ logs[worker[w].src]["error"] = worker[w].pre.logs["error"]

\* JobRich and JobTwin are queued and the database refuses the insert: the
\* table stays empty and the summary counts two errors.
C6_Witness ==
  /\ InsertFailed("w1")
  /\ jobs = <<>>
  /\ Len(worker["w1"].save.decisions) = 2
  /\ Len(worker["w1"].save.jobs_to_insert) = 2
  /\ worker["w1"].save.jobs_to_insert[1].url = JobRich.url
  /\ worker["w1"].save.jobs_to_insert[2].url = JobTwin.url
  /\ worker["w1"].summary[1].errors = 2
  /\ worker["w1"].summary[1].saved = 0

(***************************************************************************)
(* C2: no URL is stored twice                                              *)
(***************************************************************************)
\* C2: in every reachable state no two stored jobs have the same url,
\* however the runs of the two workers interleave, on one source or on two,
\* also when both runs pass is_duplicate before either inserts.
C2_UrlStoredOnce ==
  \A i, k \in 1..Len(jobs) : i # k => jobs[i].url # jobs[k].url

\* Both runs queued a row for the same URL; the other worker's insert went
\* through, and this worker's insert was refused.
C2_Witness ==
  \E w \in Workers :
    /\ InsertFailed(w)
    /\ \E k \in 1..Len(jobs) :
         /\ jobs[k].url = worker[w].save.jobs_to_insert[1].url
         /\ jobs[k].created_at # worker[w].save.jobs_to_insert[1].created_at

(***************************************************************************)
(* C7: runs on a missing or inactive source                                *)
(***************************************************************************)
\* Worker w invokes run() in this step.
RunBegins(w) == worker'[w].runs = worker[w].runs + 1

\* The source name of the run() that begins.
RunName(w) ==
  IF worker'[w].pc = "fetch" THEN worker'[w].src ELSE worker'[w].last.src

\* The result run_scraper hands on in this step is that of a run returning 0.
HandsOnZero(w, name) ==
  IF worker'[w].task = "run_scraper"
  THEN /\ worker'[w].pc = "returned"
       /\ worker'[w].ret.value = <<ScraperResult(name, 0)>>
  ELSE /\ worker'[w].pc = "next"
       /\ worker'[w].results = Append(worker[w].results, ScraperResult(name, 0))

NoOpWhenMissingOrInactive ==
  \A w \in Workers :
    (/\ RunBegins(w)
     /\ ~worker'[w].last.raised
     /\ RunName(w) \notin SourceRows \/ ~sources[RunName(w)].is_active)
    => /\ worker'[w].last.kind \in {"not_found", "inactive"}
       /\ worker'[w].last.ret = 0
       /\ HandsOnZero(w, RunName(w))
       /\ UNCHANGED <<fetch, sources, jobs, logs>>

\* A run that is past the check found its source active.
RunningOnActive ==
  \A w \in Workers :
    worker[w].pc \in {"fetch", "insert", "stats", "errw"} =>
      worker[w].src \in SourceRows /\ worker[w].pre.row.is_active

\* C7: run() for a source name that has no row, or whose row is inactive,
\* returns 0 and changes nothing: no fetch, no job inserted or updated, no
\* scraper log, the source's statistics as they were.  So a run that starts
\* while the source is disabled changes nothing.
C7_NoOpRun == [][NoOpWhenMissingOrInactive]_vars /\ []RunningOnActive

\* A run found its source disabled while the other worker was in the middle
\* of a run.
C7_Witness ==
  \E w \in Workers :
    /\ LastRun(w).kind = "inactive"
    /\ ~sources[LastRun(w).src].is_active
    /\ LastRun(w).ret = 0

(***************************************************************************)
(* C9: run_all_scrapers                                                    *)
(***************************************************************************)
RECURSIVE JobsOfSuccessful(_, _)
JobsOfSuccessful(results, i) ==
  IF i > Len(results) THEN 0
  ELSE (IF results[i].success THEN results[i].jobs_saved[1] ELSE 0)
       + JobsOfSuccessful(results, i + 1)

\* The loop of run_all_scrapers on worker w: the sources listed are called in
\* order, one call at a time, and each call that is over has left its entry.
OneAtATime(w) ==
  LET wk == worker[w] IN
  /\ wk.invoked \o wk.queue = wk.listed
  /\ \A i, k \in 1..Len(wk.listed) : i # k => wk.listed[i] # wk.listed[k]
  /\ Len(wk.results) = IF wk.pc \in {"next", "returned"}
                        THEN Len(wk.invoked) ELSE Len(wk.invoked) - 1
  /\ \A i \in 1..Len(wk.results) : wk.results[i].source_name = wk.invoked[i]
  /\ (wk.pc = "next" /\ wk.results # <<>>) =>
        wk.results[Len(wk.results)] =
          IF wk.last.raised THEN FailedResult(wk.last.src)
          ELSE ScraperResult(wk.last.src, wk.last.ret)

\* The result of run_all_scrapers on worker w, but for total_jobs_saved.
AllSourcesReported(w) ==
  LET wk == worker[w] IN
  wk.pc = "returned" =>
    /\ ~wk.ret.raised
    /\ wk.queue = <<>>
    /\ wk.ret.value[1].success
    /\ wk.ret.value[1].results = wk.results
    /\ wk.ret.value[1].total_sources = Len(wk.listed)
    /\ Len(wk.results) = Len(wk.listed)

\* The sources listed are the sources active when the task lists them.
ListsActiveSources ==
  \A w \in Workers :
    (worker[w].task = "idle" /\ worker'[w].task = "run_all_scrapers") =>
      /\ {worker'[w].listed[i] : i \in 1..Len(worker'[w].listed)} = get_active_sources
      /\ Len(worker'[w].listed) = Cardinality(get_active_sources)

\* C9 as stated: run_all_scrapers calls run_scraper once for each active
\* source, one at a time; an exception in one call is recorded as a failed
\* entry and the other sources are still run; the result has one entry per
\* active source, and its total_jobs_saved is the sum of jobs_saved over the
\* successful entries.
C9_AllScrapersAggregated ==
  /\ [][ListsActiveSources]_vars
  /\ [](\A w \in Workers :
          worker[w].task = "run_all_scrapers" =>
            /\ OneAtATime(w)
            /\ AllSourcesReported(w)
            /\ worker[w].pc = "returned" =>
                  worker[w].ret.value[1].total_jobs_saved
                    = Some(JobsOfSuccessful(worker[w].results, 1)))

\* C9, amended: the same, but total_jobs_saved is reported only when at
\* least one source is active; with no active source the result has no
\* entries and no total_jobs_saved.
C9_AggregatedWhenActive ==
  /\ [][ListsActiveSources]_vars
  /\ [](\A w \in Workers :
          worker[w].task = "run_all_scrapers" =>
            /\ OneAtATime(w)
            /\ AllSourcesReported(w)
            /\ worker[w].pc = "returned" =>
                  worker[w].ret.value[1].total_jobs_saved
                    = IF worker[w].listed = <<>> THEN None
                      ELSE Some(JobsOfSuccessful(worker[w].results, 1)))

\* Two sources were active; the call for the first raised, the call for the
\* second saved a job: two entries, one failed, and a total of 1.
C9_Witness ==
  \E w \in Workers :
    /\ worker[w].task = "run_all_scrapers"
    /\ worker[w].pc = "returned"
    /\ Len(worker[w].listed) = 2
    /\ ~worker[w].results[1].success
    /\ worker[w].results[2] = ScraperResult(worker[w].listed[2], 1)
    /\ worker[w].ret.value[1].total_jobs_saved = Some(1)

(***************************************************************************)
(* C10: sessions of the tasks                                              *)
(***************************************************************************)
\* C10: once run_scraper, run_all_scrapers or health_check_task has returned
\* and the worker is done with it, no session opened during the task is
\* open, the sessions of the run_scraper calls made by run_all_scrapers
\* included.
C10_SessionsClosed ==
  \A w \in Workers :
    worker[w].task = "idle" => \A t \in TaskNames : ~sessions[w][t]

(***************************************************************************)
(* C11: email verification                                                 *)
(***************************************************************************)
\* The verification tokens with the string n.
TokensNamed(table, n) == {r \in table : r.token = n}

\* A user becomes verified only in a verify-email step that answers 200 for
\* a stored, unexpired token of that user and deletes it; new users start
\* unverified.
VerifiedByTokenOnly ==
  /\ Len(users') >= Len(users)
  /\ \A i \in (Len(users) + 1)..Len(users') : ~users'[i].is_verified
  /\ \A i \in 1..Len(users) :
       (~users[i].is_verified /\ users'[i].is_verified) =>
          \E c \in Clients, r \in tokens :
             /\ r.user_id = users[i].id
             /\ r.expires_at >= clock
             /\ r \notin tokens'
             /\ api'[c] = Reply("verify", users[i].id, r.token, 200, <<>>)

\* A token string that was issued and is gone is never stored again, and a
\* verify-email request with a string that is not stored gets 404 and
\* changes nothing.
GoneTokenStaysGone ==
  /\ \A n \in 1..Len(users) :
       TokensNamed(tokens, n) = {} => TokensNamed(tokens', n) = {}
  /\ \A c \in Clients, n \in TokenStrings :
       (api'[c] # api[c] /\ api'[c].op = "verify" /\ api'[c].arg = <<n>>
          /\ TokensNamed(tokens, n) = {}) =>
            /\ api'[c].status = 404
            /\ users' = users
            /\ tokens' = tokens

\* is_verified stays true.
StaysVerified ==
  \A i \in 1..Len(users) : users[i].is_verified => users'[i].is_verified

\* The token of a verified user is not stored any more.
RedeemedTokenDeleted ==
  \A i \in 1..Len(users) :
    users[i].is_verified => \A r \in tokens : r.user_id # users[i].id

\* C11: is_verified changes from false to true only through verify-email
\* with an existing, unexpired token owned by that user, and that step
\* deletes the token; a redeemed token cannot be redeemed again (the next
\* attempt gets 404); is_verified never returns to false.
C11_VerifiedOnceByToken ==
  /\ [][VerifiedByTokenOnly /\ GoneTokenStaysGone /\ StaysVerified]_vars
  /\ []RedeemedTokenDeleted

\* The first user is verified, and a second verify-email with the same token
\* was answered 404.
C11_Witness ==
  /\ Len(users) >= 1
  /\ users[1].is_verified
  /\ \E c \in Clients : api[c] = Reply("verify", 0, 1, 404, <<>>)

(***************************************************************************)
(* C12: login                                                              *)
(***************************************************************************)
\* The email belongs to a user, the password is that user's, and the user is
\* verified.
MayLogIn(email, password) ==
  \E i \in 1..Len(users) :
     /\ users[i].email = email
     /\ users[i].hashed_password.of = password
     /\ users[i].is_verified

\* The reply r to a login request carries an access and a refresh token for
\* the email.
TokensIssued(r, email) ==
  /\ r.status = 200
  /\ Len(r.out) = 2
  /\ r.out[1].type = "access" /\ r.out[1].email = email
  /\ r.out[2].type = "refresh" /\ r.out[2].email = email

LoginDecided ==
  \A c \in Clients :
    (api'[c] # api[c] /\ api'[c].op = "login") =>
       LET credentials == api'[c].arg[1] IN
       IF MayLogIn(credentials.email, credentials.password)
       THEN TokensIssued(api'[c], credentials.email)
       ELSE api'[c].status = 401 /\ api'[c].out = <<>>

\* C12: login issues an access and a refresh token only when the email
\* belongs to a user, the password matches and the user is verified; in every
\* other case, also for a registered, unverified user with the correct
\* password, it answers 401 and issues no token.
C12_LoginOnlyVerified ==
  /\ [][LoginDecided]_vars
  /\ [](\A c \in Clients : api[c].op # "login" => api[c].out \in {<<>>, <<1>>, <<2>>})

\* A registered user who is not verified yet logged in with the right
\* password and got 401.
C12_Witness ==
  \E c \in Clients, i \in 1..Len(users) :
    /\ api[c].op = "login"
    /\ api[c].status = 401
    /\ api[c].arg[1].email = users[i].email
    /\ api[c].arg[1].password = users[i].hashed_password.of
    /\ ~users[i].is_verified

(***************************************************************************)
(* C13: expired verification tokens                                        *)
(***************************************************************************)
\* A verify-email request with a stored token whose expiry has passed is
\* answered 400, deletes the token and verifies nobody.
ExpiredTokenRejected ==
  \A c \in Clients, r \in tokens :
    (api'[c] # api[c] /\ api'[c].op = "verify" /\ api'[c].arg = <<r.token>>
       /\ r.expires_at < clock) =>
         /\ api'[c].status = 400
         /\ r \notin tokens'
         /\ users' = users
         /\ \A i \in 1..Len(users) : users[i].id = r.user_id => ~users'[i].is_verified

\* C13: verify-email with a token whose expiry has passed deletes that token,
\* answers 400 and leaves the user unverified; every later verify-email
\* attempt with the same token answers 404 and changes nothing.
C13_ExpiredTokenDeleted == [][ExpiredTokenRejected /\ GoneTokenStaysGone]_vars

\* The token of the first user expired and was deleted by a first attempt;
\* a second attempt with it was answered 404 and the user is still unverified.
C13_Witness ==
  /\ Len(users) >= 1
  /\ ~users[1].is_verified
  /\ TokensNamed(tokens, 1) = {}
  /\ \E c \in Clients : api[c] = Reply("verify", 0, 1, 404, <<>>)

(***************************************************************************)
(* C14: registration                                                       *)
(***************************************************************************)
\* A registration for a registered email is answered 400 and creates
\* nothing; any other registration is answered 200 and creates one user and
\* one token of that user.
RegistrationDecided ==
  \A c \in Clients :
    (api'[c] # api[c] /\ api'[c].op = "register") =>
       LET email == api'[c].arg[1] IN
       IF \E i \in 1..Len(users) : users[i].email = email
       THEN /\ api'[c].status = 400
            /\ users' = users
            /\ tokens' = tokens
       ELSE /\ api'[c].status = 200
            /\ Len(users') = Len(users) + 1
            /\ SubSeq(users', 1, Len(users)) = users
            /\ users'[Len(users')].email = email
            /\ \E r \in tokens' :
                  /\ r \notin tokens
                  /\ tokens' = tokens \cup {r}
                  /\ r.user_id = users'[Len(users')].id

\* No two users share an email.
EmailsDistinct ==
  \A i, k \in 1..Len(users) : i # k => users[i].email # users[k].email

\* C14: a registration request for an email that is already registered is
\* answered 400 and creates neither a user nor a verification token; no two
\* users share an email, and each successful registration has created
\* exactly one user and one token.
C14_RegistrationOncePerEmail == [][RegistrationDecided]_vars /\ []EmailsDistinct

\* Both emails are registered and a further registration of one of them was
\* answered 400.
C14_Witness ==
  /\ Len(users) = 2
  /\ \E c \in Clients : api[c] = Reply("register", 0, users[1].email, 400, <<>>)

(***************************************************************************)
(* C15: a user never has two preference records.                           *)
(***************************************************************************)
AtMostOnePreference ==
  \A user \in 1..Len(users) : Cardinality(PreferencesOf(prefs, user)) <= 1

\* A POST whose SELECT runs while the user has a record loads that record.
PostLoadsRecord ==
  \A c \in Clients :
    (api[c].pc # "read" /\ api'[c].pc = "read" /\ api'[c].op = "post"
       /\ PreferencesOf(prefs, api'[c].user) # {})
      => /\ api'[c].seen # <<>>
         /\ api'[c].seen[1] \in {prefs[i] : i \in PreferencesOf(prefs, api'[c].user)}

\* The commit of a POST that loaded a record adds no row and removes none.
PostUpdatesInPlace ==
  \A c \in Clients :
    (api[c].pc = "read" /\ api[c].op = "post" /\ api[c].seen # <<>>
       /\ api'[c].pc = "done")
      => /\ Len(prefs') = Len(prefs)
         /\ \A i \in 1..Len(prefs) :
              /\ prefs'[i].id = prefs[i].id
              /\ prefs'[i].user_id = prefs[i].user_id

\* C15: in every reachable state, whatever way the requests of two server
\* processes interleave, each user has at most one UserPreference record;
\* a POST of a user who has a record loads that record and its commit
\* changes it in place, adding no second row.
C15_OnePreferencePerUser ==
  []AtMostOnePreference /\ [][PostLoadsRecord /\ PostUpdatesInPlace]_vars

\* Two POSTs of one user raced: one of them was turned away by the unique
\* constraint, the other one has since updated the only record in place.
C15_Witness ==
  /\ api["c1"].op = "post" /\ api["c1"].pc = "done" /\ api["c1"].status = 201
  /\ api["c2"].op = "post" /\ api["c2"].pc = "done" /\ api["c2"].status = 500
  /\ api["c1"].user = api["c2"].user
  /\ Cardinality(PreferencesOf(prefs, api["c1"].user)) = 1
  /\ api["c1"].out[1] #
       PreferenceRow(api["c1"].out[1].id, api["c1"].user, model_dump(api["c1"].arg[1]))

(***************************************************************************)
(* C16: what a POST leaves of the record it finds.                         *)
(***************************************************************************)
\* The preference fields of a stored row.
FieldsOf(row) == [f \in PreferenceFields |-> row[f]]

\* The commit of a POST that found a record leaves the user's record with
\* the fields a first POST of the same body stores.
PostReplacesRecord ==
  \A c \in Clients :
    (api[c].pc = "read" /\ api[c].op = "post" /\ api[c].seen # <<>>
       /\ api'[c].pc = "done" /\ api'[c].status = 201)
      => \A i \in PreferencesOf(prefs', api[c].user) :
           FieldsOf(prefs'[i]) = model_dump(api[c].arg[1])

\* C16: a POST for a user who already has preferences replaces the record
\* wholesale: every field equals the value of the request body, a field the
\* body omits holds its default, and the stored preference is the one the
\* POST would have created from nothing.
C16_PostReplacesWholesale == [][PostReplacesRecord]_vars

(***************************************************************************)
(* C17: the frame of the two PATCH endpoints.                              *)
(***************************************************************************)
\* The commit of a PATCH gives the fields of the body the body's values and
\* leaves the other fields, the other rows and the number of rows alone.
PatchChangesBodyFields ==
  \A c \in Clients :
    (api[c].pc = "read" /\ api[c].op \in {"patch", "email"}
       /\ api'[c].pc = "done" /\ api'[c].status = 200)
      => LET body == api[c].arg[1] IN
         /\ Len(prefs') = Len(prefs)
         /\ \A i \in 1..Len(prefs) :
              IF prefs[i].user_id = api[c].user
                THEN /\ prefs'[i].id = prefs[i].id
                     /\ prefs'[i].user_id = prefs[i].user_id
                     /\ \A f \in PreferenceFields :
                          prefs'[i][f] = IF Has(body, f) THEN body[f] ELSE prefs[i][f]
                     /\ api'[c].out = <<prefs'[i]>>
                ELSE prefs'[i] = prefs[i]

\* The commit of PATCH /email changes no field but notification_frequency.
EmailChangesFrequencyOnly ==
  \A c \in Clients :
    (api[c].pc = "read" /\ api[c].op = "email" /\ api'[c].pc = "done")
      => /\ Len(prefs') = Len(prefs)
         /\ \A i \in 1..Len(prefs) :
              \A f \in DOMAIN prefs[i] \ {"notification_frequency"} :
                prefs'[i][f] = prefs[i][f]

NeedsRecord == {"get", "patch", "delete", "email"}

\* A request of one of the four endpoints that passes validation is answered
\* 404 when the user has no record, and only then; the 404 changes nothing.
NotFoundWithoutRecord ==
  \A c \in Clients :
    (api[c].pc # "read" /\ clock' = clock + 1
       /\ api'[c].op \in NeedsRecord /\ api'[c].status # 422)
      => /\ (api'[c].pc = "done" /\ api'[c].status = 404)
              <=> PreferencesOf(prefs, api'[c].user) = {}
         /\ prefs' = prefs

\* One request at a time, a request that found the record succeeds.
FoundThenServed ==
  \A c \in Clients :
    (api[c].pc = "read" /\ api[c].op \in NeedsRecord /\ api'[c].pc = "done")
      => api'[c].status = IF api[c].op = "delete" THEN 204 ELSE 200

\* A DELETE that is answered 204 leaves the user without a record.
DeleteRemoves ==
  \A c \in Clients :
    (api[c].pc = "read" /\ api[c].op = "delete" /\ api'[c].pc = "done"
       /\ api'[c].status = 204)
      => PreferencesOf(prefs', api[c].user) = {}

\* A user without a record gets one only from a POST answered 201.
OnlyPostCreates ==
  \A user \in 1..Len(users) :
    (PreferencesOf(prefs, user) = {} /\ PreferencesOf(prefs', user) # {})
      => \E c \in Clients :
           /\ api[c].pc = "read" /\ api[c].op = "post" /\ api[c].user = user
           /\ api'[c].pc = "done" /\ api'[c].status = 201

Mailed == SelectSeq(digest.done, LAMBDA e : e.mailed)

\* The daily job selects the verified users whose preference has the
\* frequency daily, each of them once, and nobody else.
DailySelection ==
  (digest.pc = "idle" /\ digest'.pc = "loop" /\ digest'.kind = "daily")
    => /\ \A user \in 1..Len(users) :
            (\E k \in 1..Len(digest'.selected) : digest'.selected[k] = user)
              <=> /\ users[user].is_verified
                  /\ \E i \in PreferencesOf(prefs, user) :
                       prefs[i].notification_frequency = "daily"
       /\ \A k, l \in 1..Len(digest'.selected) :
            digest'.selected[k] = digest'.selected[l] => k = l

\* The email service is called for selected users only, for verified users
\* only, and at most once for a user.
MailedSelectedOnce ==
  digest.kind = "daily" =>
    /\ Len(digest.done) <= Len(digest.selected)
    /\ \A k \in 1..Len(digest.done) : digest.done[k].user = digest.selected[k]
    /\ \A k \in 1..Len(Mailed) : users[Mailed[k].user].is_verified
    /\ \A k, l \in 1..Len(Mailed) : Mailed[k].user = Mailed[l].user => k = l

\* C19: one execution of send_daily_digests calls the email service only
\* for users who were verified and had a preference of frequency daily when
\* the job selected its users, and at most once for each; an unverified
\* user and a user whose frequency was weekly, realtime or none are not
\* selected and get no daily digest.
C19_DailyDigestRecipients == [][DailySelection]_vars /\ []MailedSelectedOnce

\* A daily job has ended: ann and bob got their digest, and nobody else did,
\* though cat has a daily preference and dan and eve are verified.
C19_Witness ==
  /\ digest.kind = "daily" /\ digest.pc = "done"
  /\ digest.selected = <<1, 2>>
  /\ Len(Mailed) = 2
  /\ ~users[3].is_verified
  /\ \E i \in PreferencesOf(prefs, 3) : prefs[i].notification_frequency = "daily"
  /\ \E i \in PreferencesOf(prefs, 4) : prefs[i].notification_frequency = "weekly"

(***************************************************************************)
(* C20: a failure with one user does not end the batch.                    *)
(***************************************************************************)
\* The number of processed users whose entry names the counter.
Tally(counter) ==
  Cardinality({k \in 1..Len(digest.done) : digest.done[k].counted = counter})

\* One iteration processes the next selected user, raises exactly the counter
\* its entry names, and leaves the loop running.  A user with no preference,
\* no keywords or no match gets no email and raises no counter; neither does
\* an exception send an email.
OneUserOneCount ==
  (digest.pc = "loop" /\ digest'.done # digest.done)
    => LET k == Len(digest.done) + 1
           entry == digest'.done[k]
       IN /\ digest'.done = Append(digest.done, entry)
          /\ k <= Len(digest.selected)
          /\ entry.user = digest.selected[k]
          /\ digest'.selected = digest.selected
          /\ digest'.pc = "loop"
          /\ entry.counted \in {"sent", "failed", "none"}
          /\ digest'.sent_count =
               digest.sent_count + (IF entry.counted = "sent" THEN 1 ELSE 0)
          /\ digest'.failed_count =
               digest.failed_count + (IF entry.counted = "failed" THEN 1 ELSE 0)
          /\ entry.counted = "sent" => entry.mailed
          /\ entry.counted = "none" => ~entry.mailed
          /\ NothingToMatch(prefs, entry.user) => ~entry.mailed

\* The counters are the numbers of the entries, and a job that logs its
\* summary has processed every selected user, once and in order.
EveryUserCounted ==
  /\ digest.sent_count = Tally("sent")
  /\ digest.failed_count = Tally("failed")
  /\ Len(digest.done) <= Len(digest.selected)
  /\ digest.summary # <<>> =>
       /\ Len(digest.done) = Len(digest.selected)
       /\ \A k \in 1..Len(digest.selected) : digest.done[k].user = digest.selected[k]
       /\ digest.summary[1].total_users = Len(digest.selected)
       /\ digest.summary[1].sent = Tally("sent")
       /\ digest.summary[1].failed = Tally("failed")
       /\ Tally("sent") + Tally("failed") + Tally("none") = Len(digest.selected)

\* Only the end of the loop, with nobody left, ends a job that has selected
\* its users.
LoopRunsToEnd ==
  (digest.pc = "loop" /\ digest'.pc # "loop")
    => /\ Len(digest.done) = Len(digest.selected)
       /\ digest'.pc = "done" /\ digest'.summary # <<>>
       /\ ~digest'.session_open

\* C20: in send_daily_digests and send_weekly_digests an exception or a
\* failed send with one user does not end the loop: every selected user is
\* processed exactly once and is counted as exactly one of sent, failed and
\* skipped (neither counter), and a user with no preference, no keywords or
\* no match is skipped with no email sent and no failure recorded.
C20_BatchSurvivesFailures ==
  [][OneUserOneCount /\ LoopRunsToEnd]_vars /\ []EveryUserCounted

\* A job of three users has logged its summary: the first user raised an
\* exception, and after it one user got the digest and one was skipped.
C20_Witness ==
  /\ digest.pc = "done" /\ digest.summary # <<>>
  /\ Len(digest.selected) = 3
  /\ digest.done[1].counted = "failed" /\ ~digest.done[1].mailed
  /\ \E k \in 2..3 : digest.done[k].counted = "sent"
  /\ \E k \in 2..3 : digest.done[k].counted = "none"
  /\ digest.summary[1] = [total_users |-> 3, sent |-> 1, failed |-> 1]

(***************************************************************************)
(* C21: the jobs of a daily digest.                                        *)
(***************************************************************************)
\* The score of a stored job for the preference of the digest's user.
ScoreFor(job) ==
  match_job(job, prefs[CHOOSE i \in PreferencesOf(prefs, digest.selected[1]) : TRUE],
            clock).score

\* The active jobs of the last 24 hours with no quality score or a score of
\* at least 0.6 whose match score is at least 0.3.
QualifyingJobs ==
  {k \in 1..Len(jobs) :
     /\ jobs[k].is_active
     /\ jobs[k].created_at >= clock - MinutesPerDay
     /\ ScoredOrUnscored(jobs[k])
     /\ ScoreFor(jobs[k]) >= RelevanceThreshold}

\* The daily digest of a user with keywords holds qualifying jobs only,
\* ten of them or all, best first, and no qualifying job outside it scores
\* higher than one inside.
DigestIsTopTen ==
  (digest.pc = "matched" /\ digest.kind = "daily"
     /\ ~NothingToMatch(prefs, digest.selected[1])
     /\ PreferencesOf(prefs, digest.selected[1]) # {})
    => LET sent == digest.done
           ids == {sent[k].job : k \in 1..Len(sent)}
       IN /\ ids \subseteq {jobs[k].id : k \in QualifyingJobs}
          /\ Len(sent) = Min(DailyLimit, Cardinality(QualifyingJobs))
          /\ Cardinality(ids) = Len(sent)
          /\ \A k \in 1..Len(sent) : \A q \in 1..Len(jobs) :
               jobs[q].id = sent[k].job => sent[k].key = ScoreFor(jobs[q])
          /\ \A k \in 1..(Len(sent) - 1) : sent[k].key >= sent[k + 1].key
          /\ \A q \in QualifyingJobs :
               jobs[q].id \notin ids =>
                 \A k \in 1..Len(sent) : ScoreFor(jobs[q]) <= sent[k].key

\* C21: the daily digest of a user is built from exactly the active jobs of
\* the last 24 hours that have no quality score or one of at least 0.6; of
\* these it keeps the jobs whose match score is at least 0.3 and sends the
\* ten highest-scoring ones in descending order, so that no qualifying job
\* is left out while a lower-scoring one is sent.
C21_DigestIsTopTen == []DigestIsTopTen

(***************************************************************************)
(* C22: excluded keywords.                                                 *)
(***************************************************************************)
\* The title or the description of the job holds an excluded keyword of the
\* preference, whatever the case of the letters.
MentionsExcluded(job, preference) ==
  /\ preference.excluded_keywords # None
  /\ \E k \in 1..Len(preference.excluded_keywords[1]) :
       \/ Contains(Lower(job.title), Lower(preference.excluded_keywords[1][k]))
       \/ Contains(Lower(DescChars(job.description)),
                   Lower(preference.excluded_keywords[1][k]))

ExcludedScoresZero ==
  \A k \in 1..Len(jobs) : \A i \in 1..Len(prefs) :
    (TruthyList(prefs[i].keywords) /\ MentionsExcluded(jobs[k], prefs[i]))
      => /\ match_job(jobs[k], prefs[i], clock).keyword_score = 0
         /\ match_job(jobs[k], prefs[i], clock).score = 0

\* C22: for a preference with at least one keyword, a job whose title or
\* description contains an excluded keyword (case-insensitive substring)
\* scores 0.0: the keyword score and the relevance score that match_job
\* returns are both 0.0, whatever bonuses the job would otherwise earn.
C22_ExcludedScoresZero == []ExcludedScoresZero

(***************************************************************************)
(* C23: a merge only fills gaps.                                           *)
(***************************************************************************)
\* The columns a merge never writes.
KeptColumns ==
  {"id", "title", "url", "company", "job_type", "source", "quality_score",
   "is_active", "posted_at", "age_days", "created_at"}

\* The columns a merge can write, updated_at apart.
MergedColumns == {"description", "salary_min", "salary_max", "location", "remote_work"}

DescLength(o) == IF o = None THEN 0 ELSE DescLen(o[1])

\* A value the row does not have; read loosely, a zero salary and an empty
\* location are values the row does not have either.
Absent(o, strict) == o = None \/ (~strict /\ o[1] = 0)

AbsentText(o, strict) == o = None \/ (~strict /\ o[1] = <<>>)

\* What every merge leaves alone, what it writes, and when it bumps
\* updated_at.
MergeFrame(strict) ==
  /\ Len(jobs') = Len(jobs)
  /\ \A i \in 1..Len(jobs) :
       LET old == jobs[i]
           new == jobs'[i]
           changed == \E f \in MergedColumns : new[f] # old[f]
       IN /\ \A f \in KeptColumns : new[f] = old[f]
          /\ new.salary_min # old.salary_min => Absent(old.salary_min, strict)
          /\ new.salary_max # old.salary_max => Absent(old.salary_max, strict)
          /\ new.location # old.location => AbsentText(old.location, strict)
          /\ new.remote_work # old.remote_work => (~old.remote_work /\ new.remote_work)
          /\ new.description # old.description =>
               DescLength(new.description) > DescLength(old.description)
          /\ changed => new.updated_at = clock'
          /\ ~changed => new = old

\* Merging a candidate into a row that already took it in changes nothing.
MergeIdempotent ==
  \A i \in 1..Len(jobs) : \A new_job_data \in MergePool :
    LET once == MergeRow(jobs[i], new_job_data, clock + 1)
    IN MergeRow(once, new_job_data, clock + 2) = once

SimilarKeys(a, b) ==
  LET r == FuzzRatio(JobKey(a), JobKey(b)) IN r[1] >= BatchFuzzyThreshold * r[2]

\* The positions of the batch that are accepted: a candidate is dropped
\* exactly when an earlier accepted one has its URL or a similar key.
Accepted(parsed) ==
  LET kept[i \in 1..Len(parsed)] ==
        ~\E j \in 1..(i - 1) :
           /\ kept[j]
           /\ (parsed[j].url = parsed[i].url \/ SimilarKeys(parsed[j], parsed[i]))
  IN {i \in 1..Len(parsed) : kept[i]}

\* The candidates at the given positions, in the order of the batch.
RECURSIVE Pick(_, _, _)
Pick(parsed, positions, i) ==
  IF i > Len(parsed) THEN <<>>
  ELSE (IF i \in positions THEN <<parsed[i]>> ELSE <<>>)
         \o Pick(parsed, positions, i + 1)

DedupKeepsFirstSeen ==
  \A w \in Workers :
    worker[w].pc = "save" =>
      LET parsed == worker[w].save.parsed
          unique_jobs == worker[w].save.unique_jobs
      IN /\ unique_jobs = Pick(parsed, Accepted(parsed), 1)
         /\ \A k, l \in 1..Len(unique_jobs) :
              unique_jobs[k].url = unique_jobs[l].url => k = l
         /\ parsed # <<>> => (unique_jobs # <<>> /\ unique_jobs[1] = parsed[1])

AdminRequest == api'["c1"]

EnableDisableFrame ==
  api'["c1"] # api["c1"] =>
    LET source_id == AdminRequest.arg[1]
        value == (AdminRequest.op = "enable")
    IN IF source_id \notin SourceRows
       THEN AdminRequest.status = 404 /\ sources' = sources
       ELSE /\ AdminRequest.status = 200
            /\ sources'[source_id] = [sources[source_id] EXCEPT !.is_active = value]
            /\ \A s \in SourceRows \ {source_id} : sources'[s] = sources[s]
            /\ SetIsActive(sources', source_id, value).sources = sources'

\* C25: enable_source and disable_source with an unknown id report failure
\* (404 at the admin endpoints) and change no source; with a known id they
\* set that source's is_active to true respectively false at once, change no
\* other field and no other source, and repeating them changes nothing.
C25_EnableDisableFrame == [][EnableDisableFrame]_vars

\* An unknown id was answered with 404 after a known source had been
\* disabled, next to a source with saved jobs that stayed enabled.
C25_Witness ==
  /\ api["c1"].op = "enable"
  /\ api["c1"].arg = <<"no-such-id">>
  /\ api["c1"].status = 404
  /\ ~sources["RemoteOK"].is_active
  /\ sources["Himalayas"].is_active
  /\ sources["Himalayas"].total_jobs_found = 2

(***************************************************************************)
(* C26: upgrade followed by downgrade.                                     *)
(***************************************************************************)
\* A downgrade that directly follows the successful upgrade of the same
\* migration.
DowngradeAfterUpgrade ==
  /\ schema.command = "upgrade"
  /\ schema.failed = 0
  /\ clock' = clock + 1
  /\ schema'.command = "downgrade"

UpgradeDowngradeRoundTrip ==
  DowngradeAfterUpgrade =>
    /\ schema'.failed = 0
    /\ schema'.revision = schema.revision - 1
    /\ schema'.objects = schema.before

\* C26: for each of the two migrations, upgrade followed by downgrade
\* succeeds, every statement of the downgrade finding the object it drops,
\* and leaves the schema that existed before the upgrade.
C26_UpgradeDowngradeRoundTrip == [][UpgradeDowngradeRoundTrip]_vars

(***************************************************************************)
(* C27: the stored success rate and the stored counters.                   *)
(***************************************************************************)
\* No run is under way.
RunsCompleted == \A w \in Workers : worker[w].pc = "idle"

SuccessRateCurrent ==
  RunsCompleted =>
    \A s \in SourceRows :
      LET total_attempts == sources[s].total_jobs_found + sources[s].total_errors
      IN total_attempts > 0 =>
           sources[s].success_rate =
             Some(SuccessRate(sources[s].total_jobs_found, total_attempts))

\* C27: after any sequence of completed runs on a source, successful or
\* failed, whenever total_jobs_found + total_errors > 0 the stored
\* success_rate is total_jobs_found / (total_jobs_found + total_errors) * 100
\* of the stored counters; a run that only counts an error leaves no stale
\* success_rate behind.
C27_SuccessRateCurrent == []SuccessRateCurrent

(***************************************************************************)
(* C28: two runs for the same source on different workers.                 *)
(***************************************************************************)
\* Both workers have finished a run for source s; these are the only runs
\* the source has had.
BothRanSource(s) ==
  \A w \in Workers :
    /\ worker[w].pc = "returned"
    /\ worker[w].last.src = s
    /\ worker[w].last.kind \notin {"none", "raised"}

\* Runs that took a failure path of run().
FailedRuns(s) ==
  {w \in Workers : worker[w].last.src = s
                     /\ worker[w].last.kind \in {"fetch_failed", "exception"}}

NoLostCounterUpdate ==
  \A s \in SourceRows :
    BothRanSource(s) =>
      /\ sources[s].total_jobs_found = worker["w1"].last.ret + worker["w2"].last.ret
      /\ sources[s].total_jobs_found =
           worker["w1"].last.inserted + worker["w2"].last.inserted
      /\ sources[s].total_errors = Cardinality(FailedRuns(s))

\* C28: when two runs for the same source overlap on different workers, no
\* counter update is lost: after both have finished, total_jobs_found has
\* grown by the sum of the two returned saved counts, which is the number of
\* job rows the runs inserted, and total_errors by the number of failed runs.
C28_NoLostCounterUpdate == []NoLostCounterUpdate

(***************************************************************************)
(* C29: the salary range of a stored preference.                           *)
(***************************************************************************)
SalaryRangeOrdered ==
  \A k \in 1..Len(prefs) :
    (prefs[k].salary_min # None /\ prefs[k].salary_max # None) =>
      prefs[k].salary_min[1] <= prefs[k].salary_max[1]

\* C29: after any sequence of accepted POST, PATCH and DELETE preference
\* requests, a stored preference never has salary_min greater than
\* salary_max when both are set.
C29_SalaryRangeOrdered == []SalaryRangeOrdered

(***************************************************************************)
(* C30: refresh tokens as bearer credentials.                              *)
(***************************************************************************)
OnlyAccessTokensAuthenticate ==
  \A c \in Clients :
    (api[c].pc = "done" /\ api[c].arg[1].claims.type # "access") =>
      api[c].status = 401

\* C30: get_current_user authenticates only access-type tokens: a validly
\* signed, unexpired refresh token presented as the bearer credential of a
\* protected endpoint is answered with 401.
C30_OnlyAccessTokensAuthenticate == []OnlyAccessTokensAuthenticate

====
